---- MODULE Spec2Model ----
(***************************************************************************)
(* Tartan's GVariant format-string checker (clang-plugin/gvariant-checker): *)
(* a recursive-descent walk over a format string, hand in hand with the     *)
(* variadic arguments of the call, modelled as an explicit call stack.      *)
(***************************************************************************)
EXTENDS Integers, Sequences, FiniteSets, TLC

VARIABLES
    func,        \* the VariantFuncInfo entry matched by the call
    literal,     \* whether the format argument is a StringLiteral
    fmt,         \* whole_format_str, as a sequence of characters
    args,        \* the call's argument expressions (fixed ones included)
    format_str,  \* the format cursor: offset into whole_format_str
    args_begin,  \* the argument cursor: number of call arguments before it
    stack,       \* the active calls of the parser, innermost last
    ret,         \* return value of the parser call that just returned
    diags,       \* the diagnostics emitted so far, in order
    log,         \* the expected types _consume_variadic_argument reported (DEBUG)
    pc,          \* position inside _check_gvariant_format_param
    retval,      \* the local retval of _check_gvariant_format_param
    returned     \* what _check_gvariant_format_param returned

vars == <<func, literal, fmt, args, format_str, args_begin, stack, ret,
          diags, log, pc, retval, returned>>

---------------------------------------------------------------------------
(* Bounds of the model. *)

MaxLen == 3
MaxArgs == 2
MaxDictLen == 5
MaxBasicLen == 2
MaxBasicArgs == 1
MaxConvLen == 4
MaxConvArgs == 1
MaxArrLen == 3
MaxGramLen == 3
MaxGramArgs == 1
MaxKeyLen == 3
MaxKeyArgs == 2
MaxDepth == 2
MaxIntArgs == 1
MaxSibArgs == 2
MaxLoopLen == 3
MaxLoopArgs == 1

---------------------------------------------------------------------------
(* Types.  A QualType is a base type name (a builtin or a typedef name)     *)
(* with a chain of pointers; p[1] is the const qualifier of the base type,  *)
(* p[k+1] that of the k-th pointer around it (outermost last).              *)

Ty(b) == [b |-> b, p |-> <<FALSE>>]
NoType == [b |-> "", p |-> <<>>]

PointerType(t) == [b |-> t.b, p |-> Append(t.p, FALSE)]
IsPointerType(t) == Len(t.p) > 1
PointeeType(t) == [b |-> t.b, p |-> SubSeq(t.p, 1, Len(t.p) - 1)]
ConstType(t) == [b |-> t.b, p |-> [t.p EXCEPT ![Len(t.p)] = TRUE]]
UnqualifiedType(t) == [b |-> t.b, p |-> [t.p EXCEPT ![Len(t.p)] = FALSE]]
IsConstQualified(t) == t.p[Len(t.p)]

\* The canonical (typedef-free) base type, on an LP64 GLib platform.
Canonical(b) ==
    CASE b \in {"gchar"} -> "char"
      [] b \in {"guchar"} -> "unsigned char"
      [] b \in {"gint16", "gshort"} -> "short"
      [] b \in {"guint16", "gushort"} -> "unsigned short"
      [] b \in {"gint32", "gint", "gboolean"} -> "int"
      [] b \in {"guint32", "guint"} -> "unsigned int"
      [] b \in {"gint64", "glong"} -> "long"
      [] b \in {"guint64", "gulong"} -> "unsigned long"
      [] b \in {"gdouble"} -> "double"
      [] b \in {"GVariant"} -> "struct _GVariant"
      [] b \in {"GVariantIter"} -> "struct _GVariantIter"
      [] b \in {"GVariantBuilder"} -> "struct _GVariantBuilder"
      [] b \in {"va_list"} -> "struct __va_list_tag [1]"
      [] OTHER -> b

IsTypedefType(t) == ~IsPointerType(t) /\ Canonical(t.b) # t.b
IsBuiltinType(t) == ~IsPointerType(t) /\ Canonical(t.b) = t.b

HasSameType(a, b) == Canonical(a.b) = Canonical(b.b) /\ a.p = b.p

SignedBases == {"char", "signed char", "short", "int", "long", "long long"}
UnsignedBases == {"_Bool", "unsigned char", "unsigned short", "unsigned int",
                  "unsigned long", "unsigned long long"}

IsSignedIntegerType(t) == ~IsPointerType(t) /\ Canonical(t.b) \in SignedBases
IsUnsignedIntegerType(t) == ~IsPointerType(t) /\ Canonical(t.b) \in UnsignedBases
IsCharType(t) ==
    ~IsPointerType(t) /\ Canonical(t.b) \in {"char", "signed char", "unsigned char"}

CorrespondingUnsignedType(t) ==
    LET c == Canonical(t.b)
        u == CASE c \in {"char", "signed char"} -> "unsigned char"
               [] c = "short" -> "unsigned short"
               [] c = "int" -> "unsigned int"
               [] c = "long" -> "unsigned long"
               [] c = "long long" -> "unsigned long long"
               [] OTHER -> c
    IN  [b |-> u, p |-> t.p]

TypeSize(t) ==
    LET c == Canonical(t.b)
    IN  CASE IsPointerType(t) -> 64
          [] c \in {"_Bool", "char", "signed char", "unsigned char"} -> 8
          [] c \in {"short", "unsigned short"} -> 16
          [] c \in {"int", "unsigned int", "float"} -> 32
          [] c \in {"long double"} -> 128
          [] OTHER -> 64

\* TypeManager::find_type_by_name and find_pointer_type_by_name.
FindTypeByName(n) == Ty(n)
FindPointerTypeByName(n) == PointerType(Ty(n))

---------------------------------------------------------------------------
(* The table of checked functions and the flags of the walk. *)

FuncInfo(n, f, v, va, in) ==
    [func_name |-> n, format_param_index |-> f,
     first_vararg_param_index |-> v, uses_va_list |-> va, args_in |-> in]

gvariant_format_funcs ==
    << FuncInfo("g_variant_new", 0, 1, FALSE, TRUE),
       FuncInfo("g_variant_new_va", 0, 2, TRUE, TRUE),
       FuncInfo("g_variant_get", 1, 2, FALSE, FALSE),
       FuncInfo("g_variant_get_va", 1, 3, TRUE, FALSE),
       FuncInfo("g_variant_get_child", 2, 3, FALSE, FALSE),
       FuncInfo("g_variant_lookup", 2, 3, FALSE, FALSE),
       FuncInfo("g_variant_iter_next", 1, 2, FALSE, FALSE),
       FuncInfo("g_variant_iter_loop", 1, 2, FALSE, FALSE),
       FuncInfo("g_variant_builder_add", 1, 2, FALSE, TRUE) >>

VariantCheckFlags ==
    {"FORCE_GVARIANT", "FORCE_VALIST", "REQUIRE_CONST", "DIRECTION_OUT",
     "ALLOW_MAYBE", "CONSUME_ARGS"}

\* Mutant: the arguments of a va_list function are consumed too.
BaseFlags_VaListConsumes(fi) ==
    {"CONSUME_ARGS"}
    \cup (IF fi.uses_va_list THEN {"FORCE_VALIST"} ELSE {})
    \cup (IF ~fi.args_in THEN {"DIRECTION_OUT", "ALLOW_MAYBE"} ELSE {})

\* Mutant: an outbound check does not allow null.
BaseFlags_OutNoMaybe(fi) ==
    (IF ~fi.uses_va_list THEN {"CONSUME_ARGS"} ELSE {"FORCE_VALIST"})
    \cup (IF ~fi.args_in THEN {"DIRECTION_OUT"} ELSE {})

\* The flags _check_gvariant_format_param starts the walk with.
BaseFlags(fi) ==
    (IF ~fi.uses_va_list THEN {"CONSUME_ARGS"} ELSE {"FORCE_VALIST"})
    \cup (IF ~fi.args_in THEN {"DIRECTION_OUT", "ALLOW_MAYBE"} ELSE {})

---------------------------------------------------------------------------
(* Type comparison and architecture dependence. *)

\* Mutants: any two pointers compare equal; types compare by their spelling.
_compare_types_AnyPointers(actual_type, expected_type, flags) ==
    \/ HasSameType(actual_type, expected_type)
    \/ IsPointerType(actual_type) /\ IsPointerType(expected_type)
_compare_types_BySpelling(actual_type, expected_type, flags) ==
    actual_type = expected_type

RECURSIVE _compare_types(_, _, _)
_compare_types(actual_type, expected_type, flags) ==
    IF HasSameType(actual_type, expected_type) THEN TRUE
    ELSE IF ~IsPointerType(actual_type) \/ ~IsPointerType(expected_type)
    THEN FALSE
    ELSE LET actual_pointee_type ==
                 IF "DIRECTION_OUT" \notin flags
                 THEN UnqualifiedType(PointeeType(actual_type))
                 ELSE PointeeType(actual_type)
         IN  _compare_types(actual_pointee_type, PointeeType(expected_type),
                            flags)

\* Mutant: typedefs are looked through, as hasSameType does.
_type_is_arch_dependent_ThroughTypedefs(type) ==
    LET base == Ty(type.b)
    IN  \/ HasSameType(base, Ty("long"))
        \/ HasSameType(base, Ty("unsigned long"))
        \/ HasSameType(base, Ty("long double"))

\* Mutant: the pointers are not stripped off.
_type_is_arch_dependent_NoPointers(type) ==
    IF IsPointerType(type) THEN FALSE
    ELSE IF IsTypedefType(type) THEN type.b \in {"glong", "gulong"}
    ELSE \/ HasSameType(type, Ty("long"))
         \/ HasSameType(type, Ty("unsigned long"))
         \/ HasSameType(type, Ty("long double"))

RECURSIVE _type_is_arch_dependent(_)
_type_is_arch_dependent(type) ==
    IF IsPointerType(type) THEN _type_is_arch_dependent(PointeeType(type))
    ELSE IF IsTypedefType(type) THEN type.b \in {"glong", "gulong"}
    ELSE \/ HasSameType(type, Ty("long"))
         \/ HasSameType(type, Ty("unsigned long"))
         \/ HasSameType(type, Ty("long double"))

---------------------------------------------------------------------------
(* Diagnostics.  anchor is the position (from 1) of the call argument whose *)
(* source location the diagnostic is reported at.                           *)

Diag(kind, msg, sev, anchor, exp, act, s0, s1) ==
    [kind |-> kind, msg |-> msg, sev |-> sev, anchor |-> anchor,
     exp |-> exp, act |-> act, s0 |-> s0, s1 |-> s1]

\* format_arg_str->getBeginLoc (): the format argument of the call.
FormatLoc == func.format_param_index + 1

FormatError(kind, msg) ==
    Diag(kind, msg, "error", FormatLoc, NoType, NoType, <<>>, <<>>)

NUL == "NUL"
CharAt(p) == IF p < Len(fmt) THEN fmt[p + 1] ELSE NUL
\* Mutant: the whole string is named as what is left.
RestFrom_Whole(p) == fmt
RestFrom(p) == SubSeq(fmt, p + 1, Len(fmt))

args_end == Len(args)

---------------------------------------------------------------------------
(* _consume_variadic_argument. *)

\* Mutant: no pointer is added for outbound arguments.
ExpectedType_NoOutPointer(expected_type, flags) ==
    IF "FORCE_GVARIANT" \in flags THEN FindPointerTypeByName("GVariant")
    ELSE IF "FORCE_VALIST" \in flags THEN FindPointerTypeByName("va_list")
    ELSE expected_type

\* Mutant: the pointer of an outbound argument is added before the const.
ExpectedType_PointerBeforeConst(expected_type, flags) ==
    LET forced ==
            IF "FORCE_GVARIANT" \in flags THEN FindPointerTypeByName("GVariant")
            ELSE IF "FORCE_VALIST" \in flags
            THEN FindPointerTypeByName("va_list")
            ELSE expected_type
        pointed ==
            IF "DIRECTION_OUT" \in flags /\ "FORCE_VALIST" \notin flags
            THEN PointerType(forced)
            ELSE forced
    IN  IF /\ "DIRECTION_OUT" \in flags
           /\ "REQUIRE_CONST" \in flags
           /\ IsPointerType(pointed)
        THEN PointerType(ConstType(PointeeType(pointed)))
        ELSE pointed

\* The expected type after the overrides the flags ask for.
ExpectedType(expected_type, flags) ==
    LET forced ==
            IF "FORCE_GVARIANT" \in flags THEN FindPointerTypeByName("GVariant")
            ELSE IF "FORCE_VALIST" \in flags
            THEN FindPointerTypeByName("va_list")
            ELSE expected_type
        consted ==
            IF /\ "DIRECTION_OUT" \in flags
               /\ "REQUIRE_CONST" \in flags
               /\ IsPointerType(forced)
            THEN PointerType(ConstType(PointeeType(forced)))
            ELSE forced
    IN  IF "DIRECTION_OUT" \in flags /\ "FORCE_VALIST" \notin flags
        THEN PointerType(consted)
        ELSE consted

\* Mutant: no constant is promoted.
ActualType_NoPromotion(arg, expected_type) == arg.type

\* The type the argument is compared as: a non-negative integer constant of
\* signed type is promoted to unsigned where an unsigned type is expected.
ActualType(arg, expected_type) ==
    IF /\ arg.icv = "nonneg"
       /\ IsUnsignedIntegerType(expected_type)
       /\ IsSignedIntegerType(arg.type)
    THEN CorrespondingUnsignedType(arg.type)
    ELSE arg.type

ArgError(kind, msg, anchor, exp, act) ==
    Diag(kind, msg, "error", anchor, exp, act, <<>>, <<>>)

\* Mutant: the test of the flag is the wrong way round.
NullRejected_FlagInverted(is_null_constant, expected_type, flags) ==
    /\ is_null_constant
    /\ "ALLOW_MAYBE" \in flags
    /\ IsPointerType(expected_type)

\* Mutant: the expected type is not looked at.
NullRejected_AnyType(is_null_constant, expected_type, flags) ==
    /\ is_null_constant
    /\ "ALLOW_MAYBE" \notin flags

\* Does a null constant get rejected?
NullRejected(is_null_constant, expected_type, flags) ==
    /\ is_null_constant
    /\ "ALLOW_MAYBE" \notin flags
    /\ IsPointerType(expected_type)

\* Mutant: the end of the arguments is no error.
ConsumeOutcome_MissingAccepted(base_type, flags) ==
    LET expected_type == ExpectedType(base_type, flags)
    IN  IF "CONSUME_ARGS" \notin flags
        THEN [ok |-> TRUE, emit |-> <<>>, cursor |-> args_begin, debug |-> <<>>]
        ELSE IF args_begin = args_end
        THEN [ok |-> TRUE, debug |-> <<expected_type>>, emit |-> <<>>,
              cursor |-> args_begin]
        ELSE LET arg == args[args_begin + 1]
                 actual_type == ActualType(arg, expected_type)
                 type_error == ~_compare_types(actual_type, expected_type, flags)
                 arch_error == _type_is_arch_dependent(actual_type)
             IN  IF NullRejected(arg.null, expected_type, flags)
                 THEN [ok |-> FALSE, debug |-> <<expected_type>>,
                       emit |-> << ArgError("NullNotAllowed", "saw_null",
                                            args_begin + 1, expected_type,
                                            NoType) >>,
                       cursor |-> args_begin]
                 ELSE IF ~arg.null /\ arch_error
                 THEN [ok |-> FALSE, debug |-> <<expected_type>>,
                       emit |-> << ArgError("ArchDependentMismatch",
                                            "not_compatible_everywhere",
                                            args_begin + 1, expected_type,
                                            actual_type) >>,
                       cursor |-> args_begin]
                 ELSE IF ~arg.null /\ type_error
                 THEN [ok |-> FALSE, debug |-> <<expected_type>>,
                       emit |-> << ArgError("TypeMismatch", "saw_other_type",
                                            args_begin + 1, expected_type,
                                            actual_type) >>,
                       cursor |-> args_begin]
                 ELSE [ok |-> TRUE, emit |-> <<>>, cursor |-> args_begin + 1,
                       debug |-> <<expected_type>>]

\* What one call does: the value returned, the diagnostics emitted and the
\* new argument cursor.
ConsumeOutcome(base_type, flags) ==
    LET expected_type == ExpectedType(base_type, flags)
    IN  IF "CONSUME_ARGS" \notin flags
        THEN [ok |-> TRUE, emit |-> <<>>, cursor |-> args_begin, debug |-> <<>>]
        ELSE IF args_begin = args_end
        THEN [ok |-> FALSE, debug |-> <<expected_type>>,
              emit |-> << ArgError("MissingArgument", "no_argument", FormatLoc,
                                   expected_type, NoType) >>,
              cursor |-> args_begin]
        ELSE LET arg == args[args_begin + 1]
                 actual_type == ActualType(arg, expected_type)
                 type_error == ~_compare_types(actual_type, expected_type, flags)
                 arch_error == _type_is_arch_dependent(actual_type)
             IN  IF NullRejected(arg.null, expected_type, flags)
                 THEN [ok |-> FALSE, debug |-> <<expected_type>>,
                       emit |-> << ArgError("NullNotAllowed", "saw_null",
                                            args_begin + 1, expected_type,
                                            NoType) >>,
                       cursor |-> args_begin]
                 ELSE IF ~arg.null /\ arch_error
                 THEN [ok |-> FALSE, debug |-> <<expected_type>>,
                       emit |-> << ArgError("ArchDependentMismatch",
                                            "not_compatible_everywhere",
                                            args_begin + 1, expected_type,
                                            actual_type) >>,
                       cursor |-> args_begin]
                 ELSE IF ~arg.null /\ type_error
                 THEN [ok |-> FALSE, debug |-> <<expected_type>>,
                       emit |-> << ArgError("TypeMismatch", "saw_other_type",
                                            args_begin + 1, expected_type,
                                            actual_type) >>,
                       cursor |-> args_begin]
                 ELSE [ok |-> TRUE, emit |-> <<>>, cursor |-> args_begin + 1,
                       debug |-> <<expected_type>>]

---------------------------------------------------------------------------
(* The call stack of the parser.  A frame is one active call: the function, *)
(* where it stands, the flags it was called with, its expected_type, and   *)
(* the format cursor it was entered with.                                  *)

Frame(fn, at, flags, expected_type) ==
    [fn |-> fn, at |-> at, flags |-> flags, et |-> expected_type,
     from |-> format_str]

Top == stack[Len(stack)]
Running(fn, at) ==
    /\ pc = "walk"
    /\ stack # <<>>
    /\ Top.fn = fn
    /\ Top.at = at

Popped == SubSeq(stack, 1, Len(stack) - 1)
\* The running call moves to `at` and calls `callee`.
Calling(at, callee) ==
    Append([stack EXCEPT ![Len(stack)].at = at], callee)
\* The running call moves to `at`.
Moved(at) == [stack EXCEPT ![Len(stack)].at = at]

RetOf(b) == IF b THEN "true" ELSE "false"

\* A call is entered with the format cursor where the caller has moved it to:
\* `from` is the value of *format_str the callee starts with.
Entered(stk, cursor) ==
    IF Len(stk) > Len(stack)
    THEN [stk EXCEPT ![Len(stk)].from = cursor]
    ELSE stk

\* One step of the parser: the new cursor, the new stack, what is emitted and
\* what is returned ("none" while no call returns).
Step(o) ==
    /\ format_str' = o.cursor
    /\ stack' = Entered(o.stack, o.cursor)
    /\ diags' = diags \o o.emit
    /\ ret' = o.ret
    /\ UNCHANGED <<func, literal, fmt, args, args_begin, log, pc, retval,
                   returned>>

Out(cursor, stk, emit, r) ==
    [cursor |-> cursor, stack |-> stk, emit |-> emit, ret |-> r]

\* Mutant: the diagnostic is emitted and true returned.
Fail_ReturnsTrue(cursor, d) == Out(cursor, Popped, <<d>>, "true")

\* return false, after emitting a diagnostic
Fail(cursor, d) == Out(cursor, Popped, <<d>>, "false")

---------------------------------------------------------------------------
(* _check_basic_type_string. *)

BasicTypeChars ==
    {"b", "y", "n", "q", "i", "h", "u", "x", "t", "d", "s", "o", "g", "?"}

\* The switch on the type character.
BasicType(c) ==
    CASE c = "b" -> Ty("int")
      [] c = "y" -> Ty("unsigned char")
      [] c = "n" -> FindTypeByName("gint16")
      [] c = "q" -> FindTypeByName("guint16")
      [] c \in {"i", "h"} -> FindTypeByName("gint32")
      [] c = "u" -> FindTypeByName("guint32")
      [] c = "x" -> FindTypeByName("gint64")
      [] c = "t" -> FindTypeByName("guint64")
      [] c = "d" -> Ty("double")
      [] c \in {"s", "o", "g"} -> PointerType(Ty("char"))
      [] c = "?" -> FindPointerTypeByName("GVariant")

\* Mutant: the direction is not looked at.
PromotedType_AnyDirection(c, expected_type, flags) ==
    IF c \in {"y", "n", "q"} THEN Ty("int") ELSE expected_type

\* Default argument promotion of the narrow integer types, inbound only.
PromotedType(c, expected_type, flags) ==
    IF "DIRECTION_OUT" \notin flags /\ c \in {"y", "n", "q"}
    THEN Ty("int")
    ELSE expected_type

\* Mutant: '@' is a prefix in the type-string grammar too.
BasicTypeStringStep_AcceptsPrefix ==
    LET c == CharAt(format_str)
        flags == Top.flags
    IN  IF c = "@"
        THEN Out(format_str + 1,
                 Calling("tail",
                         Frame("bts", "start", flags \cup {"FORCE_GVARIANT"},
                               NoType)),
                 <<>>, "none")
        ELSE IF c \notin BasicTypeChars
        THEN Fail(format_str,
                  Diag("InvalidFormatChar", "expected_basic_type_string",
                       "error", FormatLoc, NoType, NoType, <<c>>, <<>>))
        ELSE Out(format_str + 1,
                 Calling("tail",
                         Frame("consume", "start", flags,
                               PromotedType(c, BasicType(c), flags))),
                 <<>>, "none")

\* Mutant: the type character is not consumed.
BasicTypeStringStep_NoAdvance ==
    LET c == CharAt(format_str)
        flags == Top.flags
    IN  IF c \notin BasicTypeChars
        THEN Fail(format_str,
                  Diag("InvalidFormatChar", "expected_basic_type_string",
                       "error", FormatLoc, NoType, NoType, <<c>>, <<>>))
        ELSE Out(format_str,
                 Calling("tail",
                         Frame("consume", "start", flags,
                               PromotedType(c, BasicType(c), flags))),
                 <<>>, "none")

BasicTypeStringStep ==
    LET c == CharAt(format_str)
        flags == Top.flags
    IN  IF c \notin BasicTypeChars
        THEN Fail(format_str,
                  Diag("InvalidFormatChar", "expected_basic_type_string",
                       "error", FormatLoc, NoType, NoType, <<c>>, <<>>))
        ELSE Out(format_str + 1,
                 Calling("tail",
                         Frame("consume", "start", flags,
                               PromotedType(c, BasicType(c), flags))),
                 <<>>, "none")

CheckBasicTypeString ==
    /\ Running("bts", "start")
    /\ ret = "none"
    /\ Step(BasicTypeStringStep)

---------------------------------------------------------------------------
(* _check_type_string. *)

\* Mutants: the element type consumes arguments too; the element type is
\* checked as an inbound one.
ElementFlags_Consuming(flags) == flags
ElementFlags_Inbound(flags) == flags \ {"CONSUME_ARGS", "DIRECTION_OUT"}

\* The flags the element type of an array is checked with.
ElementFlags(flags) == flags \ {"CONSUME_ARGS"}

TypeStringStep ==
    LET c == CharAt(format_str)
        flags == Top.flags
        variant == FindPointerTypeByName("GVariant")
    IN  CASE c \in {"v", "r", "*"} ->
             Out(format_str + 1,
                 Calling("tail", Frame("consume", "start", flags, variant)),
                 <<>>, "none")
          [] c = "a" ->
             LET aflags == flags \cup {"ALLOW_MAYBE"}
                 expected_type ==
                     IF "DIRECTION_OUT" \in aflags
                     THEN FindPointerTypeByName("GVariantIter")
                     ELSE FindPointerTypeByName("GVariantBuilder")
             IN  Out(format_str + 1,
                     Append(Popped \o
                                << Frame("ts", "array", aflags, expected_type) >>,
                            Frame("ts", "start", ElementFlags(aflags), NoType)),
                     <<>>, "none")
          [] c = "m" ->
             Out(format_str + 1,
                 Calling("tail",
                         Frame("ts", "start", flags \cup {"ALLOW_MAYBE"},
                               NoType)),
                 <<>>, "none")
          [] c = "(" -> Out(format_str + 1, Moved("tuple"), <<>>, "none")
          [] c = "{" ->
             IF CharAt(format_str + 1) = "}"
             THEN Fail(format_str + 1,
                       FormatError("MalformedDictEntry",
                                   "type_dict_not_two_elements"))
             ELSE Out(format_str + 1,
                      Calling("dict_key", Frame("bts", "start", flags, NoType)),
                      <<>>, "none")
          [] OTHER ->
             Out(format_str,
                 Calling("tail", Frame("bts", "start", flags, NoType)),
                 <<>>, "none")

CheckTypeString ==
    /\ Running("ts", "start")
    /\ ret = "none"
    /\ Step(TypeStringStep)

\* case 'a', after the element type: consume the builder or the iterator.
TypeStringArrayStep ==
    IF ret = "false" THEN Out(format_str, Popped, <<>>, "false")
    ELSE Out(format_str,
             Calling("tail", Frame("consume", "start", Top.flags, Top.et)),
             <<>>, "none")

CheckTypeStringArray ==
    /\ Running("ts", "array")
    /\ ret # "none"
    /\ Step(TypeStringArrayStep)

\* Mutant: the end of the string ends the tuple as the bracket does.
TypeStringTupleStep_EndsAtNul ==
    LET c == CharAt(format_str)
    IN  IF ret = "false" THEN Out(format_str, Popped, <<>>, "false")
        ELSE IF c # ")" /\ c # NUL
        THEN Out(format_str,
                 Calling("tuple", Frame("ts", "start", Top.flags, NoType)),
                 <<>>, "none")
        ELSE Out(IF c = ")" THEN format_str + 1 ELSE format_str, Popped, <<>>,
                 "true")

\* case '(': the loop over the members and the closing bracket.
TypeStringTupleStep ==
    LET c == CharAt(format_str)
    IN  IF ret = "false" THEN Out(format_str, Popped, <<>>, "false")
        ELSE IF c # ")" /\ c # NUL
        THEN Out(format_str,
                 Calling("tuple", Frame("ts", "start", Top.flags, NoType)),
                 <<>>, "none")
        ELSE IF c # ")"
        THEN Fail(format_str,
                  FormatError("UnterminatedTuple", "type_tuple_no_end"))
        ELSE Out(format_str + 1, Popped, <<>>, "true")

CheckTypeStringTuple ==
    /\ Running("ts", "tuple")
    /\ Step(TypeStringTupleStep)

\* case '{', after the key.
TypeStringDictKeyStep ==
    IF ret = "false" THEN Out(format_str, Popped, <<>>, "false")
    ELSE IF CharAt(format_str) = "}"
    THEN Fail(format_str,
              FormatError("MalformedDictEntry", "type_dict_not_two_elements"))
    ELSE Out(format_str,
             Calling("dict_value", Frame("ts", "start", Top.flags, NoType)),
             <<>>, "none")

\* case '{', after the value.
TypeStringDictValueStep ==
    LET c == CharAt(format_str)
    IN  IF ret = "false" THEN Out(format_str, Popped, <<>>, "false")
        ELSE IF c = NUL
        THEN Fail(format_str,
                  FormatError("MalformedDictEntry", "type_dict_no_end"))
        ELSE IF c # "}"
        THEN Fail(format_str,
                  FormatError("MalformedDictEntry",
                              "type_dict_more_than_two_elements"))
        ELSE Out(format_str + 1, Popped, <<>>, "true")

CheckTypeStringDict ==
    /\ pc = "walk" /\ stack # <<>> /\ Top.fn = "ts"
    /\ Top.at \in {"dict_key", "dict_value"}
    /\ ret # "none"
    /\ Step(IF Top.at = "dict_key" THEN TypeStringDictKeyStep
            ELSE TypeStringDictValueStep)

---------------------------------------------------------------------------
(* _check_basic_format_string. *)

\* Mutant: only the first character is compared.
ConvenienceFormat_FirstChar(p, f) ==
    /\ p + 1 <= Len(fmt)
    /\ fmt[p + 1] = f[1]

\* CONVENIENCE_FORMAT (STR_PTR, F): strncmp (STR_PTR, F, strlen (F)) == 0
ConvenienceFormat(p, f) ==
    /\ p + Len(f) <= Len(fmt)
    /\ SubSeq(fmt, p + 1, p + Len(f)) = f

\* The table of convenience conversions, in the order it is tried: the
\* expected type and the number of characters to skip, skip 0 for no match.
Convenience(p) ==
    LET char_array == PointerType(Ty("char"))
        const_char_array == PointerType(ConstType(Ty("char")))
    IN  IF ConvenienceFormat(p, <<"a", "s">>) \/ ConvenienceFormat(p, <<"a", "o">>)
        THEN [type |-> PointerType(char_array), skip |-> 2]
        ELSE IF \/ ConvenienceFormat(p, <<"a", "&", "s">>)
                \/ ConvenienceFormat(p, <<"a", "&", "o">>)
        THEN [type |-> PointerType(const_char_array), skip |-> 3]
        ELSE IF ConvenienceFormat(p, <<"a", "a", "y">>)
        THEN [type |-> PointerType(char_array), skip |-> 3]
        ELSE IF ConvenienceFormat(p, <<"a", "y">>)
        THEN [type |-> char_array, skip |-> 2]
        ELSE IF ConvenienceFormat(p, <<"&", "a", "y">>)
        THEN [type |-> const_char_array, skip |-> 3]
        ELSE IF ConvenienceFormat(p, <<"a", "&", "a", "y">>)
        THEN [type |-> PointerType(const_char_array), skip |-> 4]
        ELSE [type |-> NoType, skip |-> 0]

BasicFormatStringStep ==
    LET c == CharAt(format_str)
        flags == Top.flags
    IN  CASE c = "@" ->
             Out(format_str + 1,
                 Calling("tail",
                         Frame("bts", "start", flags \cup {"FORCE_GVARIANT"},
                               NoType)),
                 <<>>, "none")
          [] c = "?" ->
             Out(format_str + 1,
                 Calling("tail",
                         Frame("consume", "start", flags,
                               FindPointerTypeByName("GVariant"))),
                 <<>>, "none")
          [] c = "&" ->
             Out(format_str + 1,
                 Calling("tail",
                         Frame("bts", "start", flags \cup {"REQUIRE_CONST"},
                               NoType)),
                 <<>>, "none")
          [] c = "^" ->
             LET conv == Convenience(format_str + 1)
             IN  IF conv.skip = 0
                 THEN Fail(format_str + 1,
                           FormatError("InvalidFormatChar",
                                       "unrecognized_convenience"))
                 ELSE Out(format_str + 1 + conv.skip,
                          Calling("tail",
                                  Frame("consume", "start", flags, conv.type)),
                          <<>>, "none")
          [] OTHER ->
             Out(format_str,
                 Calling("tail", Frame("bts", "start", flags, NoType)),
                 <<>>, "none")

CheckBasicFormatString ==
    /\ Running("bfs", "start")
    /\ ret = "none"
    /\ Step(BasicFormatStringStep)

---------------------------------------------------------------------------
(* _check_format_string. *)

\* Mutant: the flags are one variable, shared by the caller and its callees.
FormatStringStep_FlagsByReference ==
    LET c == CharAt(format_str)
        flags == Top.flags
    IN  CASE c = "@" ->
             Out(format_str + 1,
                 Calling("tail",
                         Frame("ts", "start", flags \cup {"FORCE_GVARIANT"},
                               NoType)),
                 <<>>, "none")
          [] c = "m" ->
             Out(format_str + 1,
                 Append([i \in 1..Len(stack) |->
                            [stack[i] EXCEPT
                                !.at = IF i = Len(stack) THEN "tail" ELSE @,
                                !.flags = @ \cup {"ALLOW_MAYBE"}]],
                        Frame("fs", "start", flags \cup {"ALLOW_MAYBE"},
                              NoType)),
                 <<>>, "none")
          [] c \in {"*", "?", "r"} ->
             Out(format_str + 1,
                 Calling("tail",
                         Frame("consume", "start", flags,
                               FindPointerTypeByName("GVariant"))),
                 <<>>, "none")
          [] c = "(" -> Out(format_str + 1, Moved("tuple"), <<>>, "none")
          [] c = "{" ->
             IF CharAt(format_str + 1) = "}"
             THEN Fail(format_str + 1,
                       FormatError("MalformedDictEntry",
                                   "format_dict_not_two_elements"))
             ELSE Out(format_str + 1,
                      Calling("dict_key", Frame("bfs", "start", flags, NoType)),
                      <<>>, "none")
          [] c = "&" ->
             Out(format_str + 1,
                 Calling("tail",
                         Frame("ts", "start", flags \cup {"REQUIRE_CONST"},
                               NoType)),
                 <<>>, "none")
          [] c = "^" ->
             Out(format_str,
                 Calling("tail", Frame("bfs", "start", flags, NoType)),
                 <<>>, "none")
          [] OTHER ->
             Out(format_str,
                 Calling("tail", Frame("ts", "start", flags, NoType)),
                 <<>>, "none")

FormatStringStep ==
    LET c == CharAt(format_str)
        flags == Top.flags
    IN  CASE c = "@" ->
             Out(format_str + 1,
                 Calling("tail",
                         Frame("ts", "start", flags \cup {"FORCE_GVARIANT"},
                               NoType)),
                 <<>>, "none")
          [] c = "m" ->
             Out(format_str + 1,
                 Calling("tail",
                         Frame("fs", "start", flags \cup {"ALLOW_MAYBE"},
                               NoType)),
                 <<>>, "none")
          [] c \in {"*", "?", "r"} ->
             Out(format_str + 1,
                 Calling("tail",
                         Frame("consume", "start", flags,
                               FindPointerTypeByName("GVariant"))),
                 <<>>, "none")
          [] c = "(" -> Out(format_str + 1, Moved("tuple"), <<>>, "none")
          [] c = "{" ->
             IF CharAt(format_str + 1) = "}"
             THEN Fail(format_str + 1,
                       FormatError("MalformedDictEntry",
                                   "format_dict_not_two_elements"))
             ELSE Out(format_str + 1,
                      Calling("dict_key", Frame("bfs", "start", flags, NoType)),
                      <<>>, "none")
          [] c = "&" ->
             Out(format_str + 1,
                 Calling("tail",
                         Frame("ts", "start", flags \cup {"REQUIRE_CONST"},
                               NoType)),
                 <<>>, "none")
          [] c = "^" ->
             Out(format_str,
                 Calling("tail", Frame("bfs", "start", flags, NoType)),
                 <<>>, "none")
          [] OTHER ->
             Out(format_str,
                 Calling("tail", Frame("ts", "start", flags, NoType)),
                 <<>>, "none")

CheckFormatString ==
    /\ Running("fs", "start")
    /\ ret = "none"
    /\ Step(FormatStringStep)

\* Mutant: the loop goes on after a member failed.
FormatStringTupleStep_KeepsGoing ==
    LET c == CharAt(format_str)
    IN  IF c # ")" /\ c # NUL
        THEN Out(format_str,
                 Calling("tuple", Frame("fs", "start", Top.flags, NoType)),
                 <<>>, "none")
        ELSE IF c # ")"
        THEN Fail(format_str,
                  FormatError("UnterminatedTuple", "format_tuple_no_end"))
        ELSE Out(format_str + 1, Popped, <<>>, "true")

\* Mutant: a tuple has at least one member.
FormatStringTupleStep_NoEmptyTuple ==
    LET c == CharAt(format_str)
    IN  IF ret = "false" THEN Out(format_str, Popped, <<>>, "false")
        ELSE IF (c # ")" /\ c # NUL) \/ (c = ")" /\ ret = "none")
        THEN Out(format_str,
                 Calling("tuple", Frame("fs", "start", Top.flags, NoType)),
                 <<>>, "none")
        ELSE IF c # ")"
        THEN Fail(format_str,
                  FormatError("UnterminatedTuple", "format_tuple_no_end"))
        ELSE Out(format_str + 1, Popped, <<>>, "true")

\* case '(': the loop over the members and the closing bracket.
FormatStringTupleStep ==
    LET c == CharAt(format_str)
    IN  IF ret = "false" THEN Out(format_str, Popped, <<>>, "false")
        ELSE IF c # ")" /\ c # NUL
        THEN Out(format_str,
                 Calling("tuple", Frame("fs", "start", Top.flags, NoType)),
                 <<>>, "none")
        ELSE IF c # ")"
        THEN Fail(format_str,
                  FormatError("UnterminatedTuple", "format_tuple_no_end"))
        ELSE Out(format_str + 1, Popped, <<>>, "true")

CheckFormatStringTuple ==
    /\ Running("fs", "tuple")
    /\ Step(FormatStringTupleStep)

\* Mutant: a closing brace after the key is not looked for.
FormatStringDictKeyStep_NoBraceCheck ==
    IF ret = "false" THEN Out(format_str, Popped, <<>>, "false")
    ELSE Out(format_str,
             Calling("dict_value", Frame("fs", "start", Top.flags, NoType)),
             <<>>, "none")

\* case '{', after the key.
FormatStringDictKeyStep ==
    IF ret = "false" THEN Out(format_str, Popped, <<>>, "false")
    ELSE IF CharAt(format_str) = "}"
    THEN Fail(format_str,
              FormatError("MalformedDictEntry", "format_dict_not_two_elements"))
    ELSE Out(format_str,
             Calling("dict_value", Frame("fs", "start", Top.flags, NoType)),
             <<>>, "none")

\* case '{', after the value.
FormatStringDictValueStep ==
    LET c == CharAt(format_str)
    IN  IF ret = "false" THEN Out(format_str, Popped, <<>>, "false")
        ELSE IF c = NUL
        THEN Fail(format_str,
                  FormatError("MalformedDictEntry", "format_dict_no_end"))
        ELSE IF c # "}"
        THEN Fail(format_str,
                  FormatError("MalformedDictEntry",
                              "format_dict_more_than_two_elements"))
        ELSE Out(format_str + 1, Popped, <<>>, "true")

CheckFormatStringDict ==
    /\ pc = "walk" /\ stack # <<>> /\ Top.fn = "fs"
    /\ Top.at \in {"dict_key", "dict_value"}
    /\ ret # "none"
    /\ Step(IF Top.at = "dict_key" THEN FormatStringDictKeyStep
            ELSE FormatStringDictValueStep)

---------------------------------------------------------------------------
(* Calls return. *)

\* _consume_variadic_argument runs and returns.
\* Mutant: the cursor moves on whether the argument was accepted or not.
ConsumeVariadicArgument_AlwaysAdvances ==
    /\ Running("consume", "start")
    /\ ret = "none"
    /\ LET o == ConsumeOutcome(Top.et, Top.flags)
       IN  /\ args_begin' = IF "CONSUME_ARGS" \in Top.flags
                            THEN args_begin + 1
                            ELSE args_begin
           /\ diags' = diags \o o.emit
           /\ log' = log \o o.debug
           /\ ret' = RetOf(o.ok)
           /\ stack' = Popped
    /\ UNCHANGED <<func, literal, fmt, args, format_str, pc, retval, returned>>

ConsumeVariadicArgument ==
    /\ Running("consume", "start")
    /\ ret = "none"
    /\ LET o == ConsumeOutcome(Top.et, Top.flags)
       IN  /\ args_begin' = o.cursor
           /\ diags' = diags \o o.emit
           /\ log' = log \o o.debug
           /\ ret' = RetOf(o.ok)
           /\ stack' = Popped
    /\ UNCHANGED <<func, literal, fmt, args, format_str, pc, retval, returned>>

\* `return callee (...)`: the caller returns what its callee returned.
ReturnCallee ==
    /\ pc = "walk"
    /\ stack # <<>>
    /\ Top.at = "tail"
    /\ ret # "none"
    /\ stack' = Popped
    /\ UNCHANGED <<func, literal, fmt, args, format_str, args_begin, ret, diags,
                   log, pc, retval, returned>>

---------------------------------------------------------------------------
(* _gvariant_format_string_for_type: a format string for a type, or none    *)
(* (the empty sequence for the NULL the code returns).                      *)

\* Mutant: the size of an integer type is not looked at.
_gvariant_format_string_for_type_AnySize(type) ==
    LET bt == IsBuiltinType(type)
    IN  IF (bt /\ type.b = "_Bool") \/ type = FindPointerTypeByName("gboolean")
        THEN <<"b">>
        ELSE IF bt /\ type.b = "unsigned char" THEN <<"y">>
        ELSE IF bt /\ type.b = "long double" THEN <<"d">>
        ELSE IF IsSignedIntegerType(type) THEN <<"i">>
        ELSE IF IsUnsignedIntegerType(type) THEN <<"u">>
        ELSE IF IsPointerType(type)
        THEN LET pointee_type == PointeeType(type)
             IN  IF IsCharType(pointee_type) /\ IsConstQualified(pointee_type)
                 THEN <<"&", "s">>
                 ELSE IF IsCharType(pointee_type) THEN <<"s">>
                 ELSE IF pointee_type = FindPointerTypeByName("GVariant")
                 THEN <<"v">>
                 ELSE IF /\ IsPointerType(pointee_type)
                         /\ IsCharType(PointeeType(pointee_type))
                 THEN <<"^", "a", "s">>
                 ELSE <<>>
        ELSE <<>>

_gvariant_format_string_for_type(type) ==
    LET bt == IsBuiltinType(type)
        size == TypeSize(type)
    IN  IF (bt /\ type.b = "_Bool") \/ type = FindPointerTypeByName("gboolean")
        THEN <<"b">>
        ELSE IF bt /\ type.b = "unsigned char" THEN <<"y">>
        ELSE IF bt /\ type.b = "long double" THEN <<"d">>
        ELSE IF IsSignedIntegerType(type)
        THEN CASE size = 16 -> <<"n">>
               [] size = 32 -> <<"i">>
               [] size = 64 -> <<"x">>
               [] OTHER -> <<>>
        ELSE IF IsUnsignedIntegerType(type)
        THEN CASE size = 16 -> <<"q">>
               [] size = 32 -> <<"u">>
               [] size = 64 -> <<"t">>
               [] OTHER -> <<>>
        ELSE IF IsPointerType(type)
        THEN LET pointee_type == PointeeType(type)
             IN  IF IsCharType(pointee_type) /\ IsConstQualified(pointee_type)
                 THEN <<"&", "s">>
                 ELSE IF IsCharType(pointee_type) THEN <<"s">>
                 ELSE IF pointee_type = FindPointerTypeByName("GVariant")
                 THEN <<"v">>
                 ELSE IF /\ IsPointerType(pointee_type)
                         /\ IsCharType(PointeeType(pointee_type))
                 THEN <<"^", "a", "s">>
                 ELSE <<>>
        ELSE <<>>

---------------------------------------------------------------------------
(* _check_gvariant_format_param. *)

\* Mutant: the format argument is taken for a literal.
IsStringLiteral_Always == TRUE

\* dyn_cast<StringLiteral> (format_arg) succeeds.
IsStringLiteral == literal

\* Mutant: what is left of the format string is not looked at.
FormatStringLeft_Never == FALSE

\* Part of the format string is left after the walk.
FormatStringLeft == CharAt(format_str) # NUL

\* The format argument is examined; a literal one starts the walk.
CheckGVariantFormatParam ==
    /\ pc = "entry"
    /\ IF ~IsStringLiteral
       THEN /\ diags' = Append(diags,
                   Diag("NonLiteralFormatString", "non_literal_format_string",
                        "warning", FormatLoc, NoType, NoType,
                        <<func.func_name>>, <<>>))
            /\ returned' = "false"
            /\ pc' = "done"
            /\ UNCHANGED <<args_begin, stack>>
       ELSE /\ args_begin' = func.first_vararg_param_index
            /\ stack' = << Frame("fs", "start", BaseFlags(func), NoType) >>
            /\ pc' = "walk"
            /\ UNCHANGED <<diags, returned>>
    /\ UNCHANGED <<func, literal, fmt, args, format_str, ret, log, retval>>

\* _check_format_string has returned: a failure is passed on, and what is
\* left of the format string is an error.
FormatStringChecked ==
    /\ pc = "walk"
    /\ stack = <<>>
    /\ ret # "none"
    /\ IF ret = "false"
       THEN /\ returned' = "false"
            /\ pc' = "done"
            /\ UNCHANGED diags
       ELSE IF FormatStringLeft
       THEN /\ diags' = Append(diags,
                   Diag("UnconsumedFormatString", "unpaired_format_strings",
                        "error", FormatLoc, NoType, NoType,
                        RestFrom(format_str), fmt))
            /\ returned' = "false"
            /\ pc' = "done"
       ELSE /\ pc' = "unconsumed"
            /\ UNCHANGED <<diags, returned>>
    /\ UNCHANGED <<func, literal, fmt, args, format_str, args_begin, stack, ret,
                   log, retval>>

\* Mutant: the loop is left after the first argument.
UnconsumedArgument_FirstOnly ==
    /\ pc = "unconsumed"
    /\ ~func.uses_va_list
    /\ args_begin # args_end
    /\ LET arg == args[args_begin + 1]
           error_format_str == _gvariant_format_string_for_type(arg.type)
       IN  diags' = Append(diags,
               Diag("UnconsumedArguments",
                    IF error_format_str # <<>> THEN "unexpected_argument_hint"
                    ELSE "unexpected_argument_no_representation",
                    "error", args_begin + 1, NoType, arg.type,
                    error_format_str, <<>>))
    /\ retval' = FALSE
    /\ args_begin' = args_end
    /\ UNCHANGED <<func, literal, fmt, args, format_str, stack, ret, log, pc,
                   returned>>

\* One round of the loop over the arguments that are left.
UnconsumedArgument ==
    /\ pc = "unconsumed"
    /\ ~func.uses_va_list
    /\ args_begin # args_end
    /\ LET arg == args[args_begin + 1]
           error_format_str == _gvariant_format_string_for_type(arg.type)
       IN  diags' = Append(diags,
               Diag("UnconsumedArguments",
                    IF error_format_str # <<>> THEN "unexpected_argument_hint"
                    ELSE "unexpected_argument_no_representation",
                    "error", args_begin + 1, NoType, arg.type,
                    error_format_str, <<>>))
    /\ retval' = FALSE
    /\ args_begin' = args_begin + 1
    /\ UNCHANGED <<func, literal, fmt, args, format_str, stack, ret, log, pc,
                   returned>>

\* The loop ends: return retval.
ReturnRetval ==
    /\ pc = "unconsumed"
    /\ ~(~func.uses_va_list /\ args_begin # args_end)
    /\ returned' = RetOf(retval)
    /\ pc' = "done"
    /\ UNCHANGED <<func, literal, fmt, args, format_str, args_begin, stack, ret,
                   diags, log, retval>>

---------------------------------------------------------------------------
(* The calls checked. *)

SeqsUpTo(S, n) == UNION {[1..k -> S] : k \in 0..n}

Expr(type, null, icv) == [type |-> type, null |-> null, icv |-> icv]
\* An expression of the given type that is no constant.
Var(type) == Expr(type, FALSE, "none")
\* NULL, that is ((void*) 0).
NullExpr == Expr(PointerType(Ty("void")), TRUE, "none")

\* The arguments before the variadic ones: the format argument among them.
FixedArgs(fi) ==
    [i \in 1..fi.first_vararg_param_index |->
        IF i = fi.format_param_index + 1
        THEN Var(PointerType(ConstType(Ty("gchar"))))
        ELSE Var(PointerType(Ty("void")))]

FuncNamed(n) ==
    CHOOSE fi \in {gvariant_format_funcs[i] : i \in DOMAIN gvariant_format_funcs} :
        fi.func_name = n

\* A call of fi: a va_list function has one argument after the fixed ones,
\* the va_list; the others have the variadic arguments.
InitCall(fi, lit, f, tail) ==
    /\ func = fi
    /\ literal = lit
    /\ fmt = f
    /\ args = FixedArgs(fi) \o
              (IF fi.uses_va_list THEN << Var(FindPointerTypeByName("va_list")) >>
               ELSE tail)
    /\ format_str = 0
    /\ args_begin = 0
    /\ stack = <<>>
    /\ ret = "none"
    /\ diags = <<>>
    /\ log = <<>>
    /\ pc = "entry"
    /\ retval = TRUE
    /\ returned = "none"

\* The calls of Spec: inbound, outbound and va_list signatures, every format
\* string of up to MaxLen characters (and some longer ones) and up to MaxArgs
\* variadic arguments.
Alphabet == {"(", ")", "{", "a", "s", "x"}
ArgExprs ==
    {Var(PointerType(Ty("gchar"))), Var(Ty("gint64")), Var(Ty("long")), NullExpr}
Funcs == {FuncNamed("g_variant_new"), FuncNamed("g_variant_get"),
          FuncNamed("g_variant_new_va"), FuncNamed("g_variant_get_va")}

Calls(funcs, formats, tails) ==
    \E fi \in funcs, lit \in BOOLEAN :
        \E f \in (IF lit THEN formats ELSE {<<>>}),
           tail \in (IF fi.uses_va_list THEN {<<>>} ELSE tails) :
            InitCall(fi, lit, f, tail)

\* Some longer format strings, which take two arguments.
Samples ==
    { <<"(", "s", "x", ")">>, <<"(", "x", "s", ")">>, <<"(", "s", "s", ")">>,
      <<"(", "s", "(", "x", ")", ")">>, <<"(", "a", "s", "x", ")">>,
      <<"(", "s", "x">>, <<"(", "s", ")", "x">>, <<"a", "(", "s", "x", ")">>,
      <<"(", "s", "a", "(", "x">>, <<"{", "s", "x", "}">> }

Init ==
    Calls(Funcs, SeqsUpTo(Alphabet, MaxLen) \cup Samples,
          SeqsUpTo(ArgExprs, MaxArgs))

\* The calls of SpecDict: the iterator functions of tests/gvariant-iter.c and
\* a va_list function, over the dict entries of up to MaxDictLen characters
\* and some containers around them.
DictAlphabet == {"{", "}", "s", "v"}
DictSamples ==
    { <<"(", "{", "s", "v", "}", ")">>, <<"a", "{", "s", "v", "}">>,
      <<"(", "a", "{", "s", "v", "}", ")">>, <<"a", "(", "s", "v", ")">>,
      <<"(", "{", "s", "}", ")">>, <<"a", "{", "s", "}">>, <<"a", "{", "}">>,
      <<"@", "{", "s", "v", "}">>, <<"@", "{", "s", "}">>,
      <<"a", "{", "s", "v", "s", "}">>, <<"(", "{", "s", "v", "s", "}", ")">>,
      <<"m", "{", "s", "v", "}">>, <<"m", "{", "}">>,
      <<"(", "s", "{", "}", ")">>, <<"(", "{", "}", "s", ")">>,
      <<"a", "a", "{", "s", "}">>, <<"(", "s", ")">>, <<"(", ")">> }
DictArgExprs ==
    {Var(PointerType(PointerType(Ty("gchar")))),
     Var(PointerType(FindPointerTypeByName("GVariant")))}
DictFuncs == {FuncNamed("g_variant_iter_loop"), FuncNamed("g_variant_iter_next"),
              FuncNamed("g_variant_new_va")}

InitDict ==
    Calls(DictFuncs, SeqsUpTo(DictAlphabet, MaxDictLen) \cup DictSamples,
          SeqsUpTo(DictArgExprs, MaxArgs))

\* The calls of SpecNull: inbound and outbound signatures without va_list,
\* format strings with maybe types and arrays, and arguments that are null
\* constants: NULL, and the literal 0, which is a null pointer constant too.
ZeroExpr == Expr(Ty("int"), TRUE, "nonneg")
NullAlphabet == {"m", "s", "i", "a"}
NullSamples ==
    { <<"(", "m", "s", ")">>, <<"(", "s", "m", "s", ")">>,
      <<"m", "(", "s", "i", ")">>, <<"(", "m", "s", "s", ")">>,
      <<"m", "^", "a", "s">>, <<"^", "a", "s">>, <<"m", "v">>, <<"v">>,
      <<"@", "s">>, <<"m", "@", "s">>, <<"&", "s">>, <<"m", "(", "s">>,
      <<"{", "s", "v", "}">>, <<"m", "{", "s", "v", "}">>,
      <<"a", "(", "s", ")">>, <<"a", "{", "s", "v", "}">> }
NullArgExprs ==
    {NullExpr, ZeroExpr, Var(PointerType(Ty("gchar"))), Var(Ty("gint"))}
NullFuncs ==
    {FuncNamed("g_variant_new"), FuncNamed("g_variant_get"),
     FuncNamed("g_variant_get_child"), FuncNamed("g_variant_lookup"),
     FuncNamed("g_variant_iter_next"), FuncNamed("g_variant_iter_loop")}

InitNull ==
    Calls(NullFuncs, SeqsUpTo(NullAlphabet, MaxLen) \cup NullSamples,
          SeqsUpTo(NullArgExprs, MaxArgs))

\* The calls of SpecBasic: an inbound and an outbound signature, every string
\* of up to MaxBasicLen basic type characters (and some containers), and up
\* to MaxBasicArgs variadic arguments.
BasicSamples ==
    { <<"(", "y", "n", ")">>, <<"(", "q", ")">>, <<"{", "y", "s", "}">>,
      <<"a", "y">>, <<"a", "(", "n", ")">>, <<"a", "{", "q", "v", "}">>,
      <<"m", "y">>, <<"@", "y">>, <<"&", "s">>, <<"(", "y", ")">>,
      <<"(", ")">> }
BasicArgExprs ==
    {Var(Ty("gint")), Var(Ty("guchar")), Var(PointerType(Ty("guchar"))),
     Var(PointerType(Ty("gint16")))}
BasicFuncs == {FuncNamed("g_variant_new"), FuncNamed("g_variant_get")}

InitBasic ==
    Calls(BasicFuncs, SeqsUpTo(BasicTypeChars, MaxBasicLen) \cup BasicSamples,
          SeqsUpTo(BasicArgExprs, MaxBasicArgs))

\* The calls of SpecConv: '^' followed by every string of up to MaxConvLen
\* of the characters of the convenience conversions (and some containers),
\* with up to MaxConvArgs variadic arguments.
ConvAlphabet == {"a", "&", "s", "o", "y"}
ConvSamples ==
    { <<"(", "^", "a", "s", ")">>, <<"{", "s", "^", "a", "s", "}">>,
      <<"(", "^", "a", "&", "a", "y", "s", ")">>, <<"m", "^", "a", "y">>,
      <<"a", "s">>, <<"a", "(", "s", ")">>, <<"a", "{", "s", "v", "}">>,
      <<"(", ")">>, <<"s">>, <<"^">>, <<"(", "^", ")">> }
ConvArgExprs ==
    {Var(PointerType(PointerType(Ty("gchar")))),
     Var(PointerType(PointerType(ConstType(Ty("gchar"))))),
     Var(PointerType(Ty("gchar"))),
     Var(PointerType(ConstType(Ty("gchar"))))}
ConvFuncs == {FuncNamed("g_variant_new"), FuncNamed("g_variant_get"),
              FuncNamed("g_variant_new_va")}

InitConv ==
    Calls(ConvFuncs,
          {<<"^">> \o f : f \in SeqsUpTo(ConvAlphabet, MaxConvLen)}
              \cup ConvSamples,
          SeqsUpTo(ConvArgExprs, MaxConvArgs))

\* The calls of SpecArray: 'a' followed by every string of up to MaxArrLen
\* characters of element types (and some longer ones), with up to MaxArgs
\* variadic arguments, builders and iterators among them.
ArrAlphabet == {"a", "(", ")", "s", "i"}
ArrSamples ==
    { <<"a", "{", "s", "v", "}">>, <<"a", "(", "i", "i", ")">>,
      <<"a", "a", "(", "s", "i", ")">>, <<"(", "a", "s", "i", ")">>,
      <<"(", "a", "(", "i", "i", ")", "s", ")">>, <<"@", "a", "s">>,
      <<"m", "a", "s">>, <<"a", "{", "s", "a", "{", "s", "v", "}", "}">>,
      <<"{", "s", "a", "s", "}">>, <<"a", "{", "s", "}">>, <<"(", ")">> }
ArrArgExprs ==
    {Var(FindPointerTypeByName("GVariantBuilder")),
     Var(PointerType(FindPointerTypeByName("GVariantIter"))),
     Var(PointerType(Ty("gchar")))}
ArrFuncs == {FuncNamed("g_variant_new"), FuncNamed("g_variant_get"),
             FuncNamed("g_variant_new_va")}

InitArray ==
    Calls(ArrFuncs,
          {<<"a">> \o f : f \in SeqsUpTo(ArrAlphabet, MaxArrLen)}
              \cup ArrSamples,
          SeqsUpTo(ArrArgExprs, MaxArgs))

\* The calls of SpecGrammar: every string of up to MaxGramLen characters of
\* the prefixes '@', '&', '^', 'm', the containers and a string (and some
\* longer ones), with up to MaxGramArgs variadic arguments.
GramAlphabet == {"@", "&", "^", "a", "m", "(", "s"}
GramSamples ==
    { <<"(", "@", "s", "i", ")">>, <<"(", "&", "s", "s", ")">>,
      <<"(", "@", "s", ")">>, <<"a", "(", "@", "s", ")">>,
      <<"@", "(", "s", ")">>, <<"@", "(", "&", "s", ")">>,
      <<"(", "^", "a", "s", ")">>, <<"^", "a", "s">>, <<"m", "^", "a", "s">>,
      <<"{", "@", "s", "v", "}">>, <<"{", "s", "@", "s", "}">>,
      <<"{", "s", "^", "a", "s", "}">>, <<"a", "{", "s", "@", "s", "}">>,
      <<"a", "{", "@", "s", "v", "}">>, <<"@", "{", "s", "&", "s", "}">>,
      <<"@", "m", "(", "^", "a", "s", ")">>, <<"a", "{", "s", "v", "}">>,
      <<"(", ")">>, <<"(", "s", ")">>, <<"{">>, <<"(", "{">>,
      <<"a", "{">>, <<"^", "a", "&", "a">>, <<"(", "^", "a", "&">>,
      <<"@", "(", "s", "s", ")">>, <<"@", "{", "s", "v", "}">>,
      <<"@", "(", ")">>, <<"@", "a", "(", "s", "s", ")">>,
      <<"@", "m", "(", "s", "s", ")">> }
GramArgExprs ==
    {Var(PointerType(Ty("gchar"))), Var(FindPointerTypeByName("GVariant")),
     Var(PointerType(PointerType(ConstType(Ty("gchar")))))}
GramFuncs == {FuncNamed("g_variant_new"), FuncNamed("g_variant_get"),
              FuncNamed("g_variant_get_va")}

InitGrammar ==
    Calls(GramFuncs, SeqsUpTo(GramAlphabet, MaxGramLen) \cup GramSamples,
          SeqsUpTo(GramArgExprs, MaxGramArgs))

\* The calls of SpecKey: a dict entry, alone or as the element of an array,
\* whose key starts with any of KeyChars and goes on with up to MaxKeyLen
\* characters, and some with a convenience conversion as the key.
KeyChars == {"a", "m", "(", "{", "v", "r", "*", "s", "i", "@"}
KeyRest == {"s", "v", "}"}
KeyFormats ==
    { <<"{", k>> \o r : k \in KeyChars, r \in SeqsUpTo(KeyRest, MaxKeyLen) }
KeySamples ==
    { <<"{", "^", "a", "s", "v", "}">>, <<"{", "^", "a", "y", "s", "}">>,
      <<"a", "{", "^", "a", "s", "v", "}">>, <<"{", "&", "s", "v", "}">>,
      <<"{", "?", "v", "}">>, <<"{", "s", "(", "s", ")", "}">>,
      <<"a", "(", "s", ")">>, <<"(", ")">>, <<"(", "s", ")">> }
KeyArgExprs ==
    {Var(PointerType(Ty("gchar"))), Var(FindPointerTypeByName("GVariant")),
     Var(PointerType(PointerType(Ty("gchar"))))}
KeyFuncs == {FuncNamed("g_variant_new"), FuncNamed("g_variant_new_va")}

InitKey ==
    Calls(KeyFuncs,
          KeyFormats \cup { <<"a">> \o f : f \in KeyFormats } \cup KeySamples,
          SeqsUpTo(KeyArgExprs, MaxKeyArgs))

\* The calls of SpecTypes: a format string of one type and at most one
\* variadic argument, of any of the base types of TypeBases behind up to
\* MaxDepth pointers, each pointee const-qualified or not.  (The argument is
\* an rvalue: its own type has no qualifier.)
TypeBases ==
    {"char", "gchar", "int", "long", "glong", "gulong", "gint64",
     "unsigned long", "long double", "GVariant"}
QualTypes ==
    { [b |-> b, p |-> Append(q, FALSE)] :
        b \in TypeBases, q \in SeqsUpTo(BOOLEAN, MaxDepth) }
TypeArgExprs == { Var(t) : t \in QualTypes }
TypeFormats ==
    { <<"s">>, <<"x">>, <<"t">>, <<"i">>, <<"d">>, <<"v">>, <<"&", "s">>,
      <<"@", "s">>, <<"m", "s">>, <<"^", "a", "s">>, <<"^", "a", "&", "s">>,
      <<"^", "&", "a", "y">>, <<"^", "a", "y">>, <<"a", "s">>,
      <<"(", "s", ")">>, <<"(", ")">>, <<"{", "s", "v", "}">>,
      <<"a", "(", "s", ")">>, <<"a", "{", "s", "v", "}">>, <<"(", "x">> }
TypeFuncs == {FuncNamed("g_variant_new"), FuncNamed("g_variant_get")}

InitTypes ==
    Calls(TypeFuncs, TypeFormats, {<<>>} \cup { <<e>> : e \in TypeArgExprs })

\* The calls of SpecInt: format strings of integer types with up to
\* MaxIntArgs variadic arguments: integer constants (positive, zero and
\* negative) and variables of the signed and unsigned integer types.
IntBases == {"int", "gint", "long", "gint64", "long long"}
UIntBases == {"guint", "guint64"}
IntArgExprs ==
    { Expr(Ty(b), FALSE, icv) : b \in IntBases, icv \in {"none", "nonneg", "neg"} }
        \cup { Expr(Ty(b), FALSE, icv) : b \in UIntBases, icv \in {"none", "nonneg"} }
        \cup { Expr(Ty(b), TRUE, "nonneg") : b \in {"int", "long", "long long"} }
IntFormats ==
    { <<"u">>, <<"t">>, <<"i">>, <<"x">>, <<"q">>, <<"y">>, <<"m", "u">>,
      <<"(", "u", "t", ")">>, <<"(", "t", ")">>, <<"(", ")">>,
      <<"{", "u", "t", "}">>, <<"a", "u">>, <<"a", "(", "u", ")">>,
      <<"a", "{", "u", "t", "}">>, <<"^", "a", "y">>, <<"(", "u">> }
IntFuncs == {FuncNamed("g_variant_new"), FuncNamed("g_variant_get")}

InitInt == Calls(IntFuncs, IntFormats, SeqsUpTo(IntArgExprs, MaxIntArgs))

\* The calls of SpecSibling: tuples and dict entries of two members, the first
\* with or without a prefix, and some around them, with up to MaxSibArgs
\* variadic arguments, NULL among them.
SibPrefixes == {<<>>, <<"m">>, <<"@">>, <<"&">>}
SibTypes == {"s", "i"}
SibFormats ==
    { <<o>> \o pre \o <<t1, t2>> \o <<IF o = "(" THEN ")" ELSE "}">> :
        o \in {"(", "{"}, pre \in SibPrefixes, t1 \in SibTypes, t2 \in SibTypes }
SibSamples ==
    { <<"(", "m", "(", "s", ")", "s", ")">>, <<"m", "s">>, <<"@", "s">>,
      <<"(", "s", "m", "s", ")">>, <<"a", "(", "m", "s", "s", ")">>,
      <<"a", "{", "s", "m", "s", "}">>, <<"a", "m", "s">>, <<"(", ")">>,
      <<"^", "a", "s">>, <<"(", "m", "s">> }
SibArgExprs ==
    {NullExpr, Var(PointerType(Ty("gchar"))), Var(Ty("gint")),
     Var(FindPointerTypeByName("GVariant"))}
SibFuncs == {FuncNamed("g_variant_new"), FuncNamed("g_variant_get")}

InitSibling ==
    Calls(SibFuncs, SibFormats \cup SibSamples, SeqsUpTo(SibArgExprs, MaxSibArgs))

\* The calls of SpecLoop: every string of up to MaxLoopLen characters of
\* tuples, arrays, maybes and strings (and some dict entries and longer
\* ones), with up to MaxLoopArgs variadic arguments.
LoopAlphabet == {"(", ")", "a", "m", "s"}
LoopSamples ==
    { <<"(", "s", "s", "s", ")">>, <<"(", "(", "(", ")", ")", ")">>,
      <<"a", "(", "s", "s", ")">>, <<"a", "a", "a", "s">>,
      <<"{", "s", "v", "}">>, <<"a", "{", "s", "v", "}">>,
      <<"m", "m", "^", "a", "s">>, <<"(", "(", "s", ")", "(", "s", ")", ")">> }
LoopArgExprs == {Var(PointerType(Ty("gchar"))), Var(Ty("gint"))}
LoopFuncs == {FuncNamed("g_variant_new"), FuncNamed("g_variant_get_va")}

InitLoop ==
    Calls(LoopFuncs, SeqsUpTo(LoopAlphabet, MaxLoopLen) \cup LoopSamples,
          SeqsUpTo(LoopArgExprs, MaxLoopArgs))

\* The calls of SpecRound: the types the basic type characters stand for, as
\* the switch has them and as promoted for an inbound argument, each as the
\* one variadic argument of a call whose format string is any of those
\* _gvariant_format_string_for_type gives for these types (and some others).
\* The argument expression of a variadic call has the type the default
\* argument promotions give: integer types narrower than int become int.
DefaultArgumentPromotion(t) ==
    IF ~IsPointerType(t) /\ TypeSize(t) < 32 THEN Ty("int") ELSE t
ResolvedTypes(c) == {BasicType(c), PromotedType(c, BasicType(c), {})}
RoundTypes == UNION { ResolvedTypes(c) : c \in BasicTypeChars }
RoundFormats ==
    { _gvariant_format_string_for_type(t) : t \in RoundTypes } \ {<<>>}
RoundSamples ==
    { <<"(", "s", ")">>, <<"(", ")">>, <<"{", "s", "v", "}">>, <<"a", "s">>,
      <<"a", "(", "s", ")">>, <<"a", "{", "s", "v", "}">>, <<"^", "a", "s">>,
      <<"(", "i", "x", ")">> }
RoundArgExprs == { Var(DefaultArgumentPromotion(t)) : t \in RoundTypes }
RoundFuncs == {FuncNamed("g_variant_new"), FuncNamed("g_variant_get")}

InitRound ==
    Calls(RoundFuncs, RoundFormats \cup RoundSamples,
          {<<>>} \cup { <<e>> : e \in RoundArgExprs })

Next ==
    \/ CheckGVariantFormatParam
    \/ CheckFormatString
    \/ CheckFormatStringTuple
    \/ CheckFormatStringDict
    \/ CheckBasicFormatString
    \/ CheckTypeString
    \/ CheckTypeStringArray
    \/ CheckTypeStringTuple
    \/ CheckTypeStringDict
    \/ CheckBasicTypeString
    \/ ConsumeVariadicArgument
    \/ ReturnCallee
    \/ FormatStringChecked
    \/ UnconsumedArgument
    \/ ReturnRetval

Spec == Init /\ [][Next]_vars
SpecDict == InitDict /\ [][Next]_vars
SpecNull == InitNull /\ [][Next]_vars
SpecBasic == InitBasic /\ [][Next]_vars
SpecConv == InitConv /\ [][Next]_vars
SpecArray == InitArray /\ [][Next]_vars
SpecGrammar == InitGrammar /\ [][Next]_vars
SpecKey == InitKey /\ [][Next]_vars
SpecTypes == InitTypes /\ [][Next]_vars
SpecInt == InitInt /\ [][Next]_vars
SpecSibling == InitSibling /\ [][Next]_vars
SpecRound == InitRound /\ [][Next]_vars
\* The checker runs to completion: nothing but its own steps is scheduled.
SpecLoop == InitLoop /\ [][Next]_vars /\ WF_vars(Next)

---------------------------------------------------------------------------
(* What the claims speak of. *)

Done == pc = "done"
\* The variadic arguments of the call.
VarArgs == SubSeq(args, func.first_vararg_param_index + 1, Len(args))
VarArgTypes == [i \in 1..Len(VarArgs) |-> VarArgs[i].type]
\* The position, among the call's arguments, of the k-th variadic argument.
VarArgLoc(k) == func.first_vararg_param_index + k
DiagKinds == [i \in 1..Len(diags) |-> diags[i].kind]

GCharPtrPtr == PointerType(PointerType(Ty("gchar")))
GVariantPtrPtr == PointerType(FindPointerTypeByName("GVariant"))
DictSV == <<"{", "s", "v", "}">>
IterCall ==
    /\ literal
    /\ func.func_name \in {"g_variant_iter_loop", "g_variant_iter_next"}
    /\ fmt = DictSV

\* C1: an outbound, non-va_list check of "{sv}" against (gchar**, GVariant**)
\* returns true without a diagnostic: the key is checked against char** and
\* takes the first argument, the value against GVariant** and takes the
\* second, and both cursors end at their ends.
C1_DictPairAccepted ==
    (IterCall /\ VarArgTypes = <<GCharPtrPtr, GVariantPtrPtr>>) =>
        /\ diags = <<>>
        /\ Running("consume", "start") =>
              \/ /\ args_begin = VarArgLoc(1) - 1
                 /\ format_str = 2
                 /\ ExpectedType(Top.et, Top.flags)
                        = PointerType(PointerType(Ty("char")))
              \/ /\ args_begin = VarArgLoc(2) - 1
                 /\ format_str = 3
                 /\ ExpectedType(Top.et, Top.flags) = GVariantPtrPtr
        /\ Done => /\ returned = "true"
                   /\ format_str = Len(fmt)
                   /\ args_begin = args_end
                   /\ Len(log) = 2

C1_Witness ==
    /\ IterCall /\ VarArgTypes = <<GCharPtrPtr, GVariantPtrPtr>>
    /\ Done /\ returned = "true" /\ args_begin = args_end

\* C2: the same check against (gchar**, gchar**) returns false with one
\* diagnostic in all: a TypeMismatch at the second variadic argument, which
\* names GVariant** as expected and gchar** as seen.
C2_DictValueMismatch ==
    (IterCall /\ VarArgTypes = <<GCharPtrPtr, GCharPtrPtr>> /\ Done) =>
        /\ returned = "false"
        /\ Len(diags) = 1
        /\ diags[1].kind = "TypeMismatch"
        /\ diags[1].sev = "error"
        /\ diags[1].exp = GVariantPtrPtr
        /\ diags[1].act = GCharPtrPtr
        /\ diags[1].anchor = VarArgLoc(2)

C2_Witness ==
    /\ IterCall /\ VarArgTypes = <<GCharPtrPtr, GCharPtrPtr>>
    /\ Done /\ "TypeMismatch" \in {diags[i].kind : i \in 1..Len(diags)}

\* C3: a finished check returned true if and only if it emitted no
\* diagnostic, error or warning.
C3_TrueIffNoDiagnostic ==
    Done => (returned = "true" <=> diags = <<>>)

C3_Witness == Done /\ returned = "false" /\ Len(diags) = 1 /\ literal

\* C4: a check of a literal format string that returned true has its format
\* cursor at the terminator and, unless the signature uses a va_list, its
\* argument cursor at the end, each variadic argument consumed once.
C4_TrueMeansAllConsumed ==
    (Done /\ literal /\ returned = "true") =>
        /\ CharAt(format_str) = NUL
        /\ format_str = Len(fmt)
        /\ ~func.uses_va_list =>
              /\ args_begin = args_end
              /\ Len(log) = Len(VarArgs)

C4_Witness ==
    /\ Done /\ literal /\ returned = "true"
    /\ ~func.uses_va_list /\ Len(VarArgs) = 2 /\ args_begin = args_end

FormatKinds ==
    {"InvalidFormatChar", "UnterminatedTuple", "MalformedDictEntry",
     "UnconsumedFormatString"}
ArgumentKinds ==
    {"MissingArgument", "NullNotAllowed", "TypeMismatch",
     "ArchDependentMismatch", "UnconsumedArguments"}

\* The variadic arguments are as many as the expected types the walk reported
\* and each has the type expected at its place.
ArgsMatch ==
    /\ Len(VarArgs) = Len(log)
    /\ \A i \in 1..Len(VarArgs) : HasSameType(VarArgs[i].type, log[i])
NoArchDependentArg ==
    \A i \in 1..Len(VarArgs) : ~_type_is_arch_dependent(VarArgs[i].type)
\* The format string is one complete format string for the parser.
FormatAccepted == \A i \in 1..Len(diags) : diags[i].kind \notin FormatKinds

\* C5, as stated: for a format string the parser accepts as one complete
\* format string, whenever the static types of the arguments match, in order,
\* the expected types for it, the check returns true without a diagnostic.
C5_AsStated ==
    (Done /\ literal /\ FormatAccepted /\ (func.uses_va_list \/ ArgsMatch)) =>
        (returned = "true" /\ diags = <<>>)

\* C5, amended: for a format string the parser accepts as one complete format
\* string, and arguments whose types match the expected types in order and
\* are not architecture-dependent, the check returns true without a
\* diagnostic.
C5_MatchingArgsAccepted ==
    (/\ Done /\ literal /\ FormatAccepted
     /\ func.uses_va_list \/ (ArgsMatch /\ NoArchDependentArg)) =>
        (returned = "true" /\ diags = <<>>)

C5_Witness ==
    /\ Done /\ literal /\ ~func.uses_va_list /\ FormatAccepted
    /\ ArgsMatch /\ NoArchDependentArg
    /\ Len(VarArgs) = 2 /\ VarArgs[1] # VarArgs[2]
    /\ returned = "true"

\* An error other than those of the pass over the arguments that are left.
WalkFailed ==
    \E i \in 1..Len(diags) :
        diags[i].sev = "error" /\ diags[i].kind # "UnconsumedArguments"

\* C6: the walk is fail-fast.  Once an error of the walk is emitted it stays
\* the only diagnostic, neither cursor moves again and false is what every
\* enclosing production and the check return; several errors in one check
\* are all UnconsumedArguments.
C6_FailFast ==
    /\ [](WalkFailed => /\ Len(diags) = 1
                        /\ pc = "walk" => ret = "false"
                        /\ Done => returned = "false")
    /\ [](Len(diags) > 1 =>
             \A i \in 1..Len(diags) : diags[i].kind = "UnconsumedArguments")
    /\ [][WalkFailed => /\ diags' = diags
                        /\ format_str' = format_str
                        /\ args_begin' = args_begin]_vars

C6_Witness ==
    /\ WalkFailed /\ pc = "walk" /\ Len(stack) >= 3
    /\ ~func.uses_va_list /\ args_begin < args_end
    /\ CharAt(format_str) # NUL

\* C7: for a signature without va_list, after a walk that succeeded and
\* consumed the whole format string, each of the k arguments left gets one
\* UnconsumedArguments error, in order and at that argument, and with k >= 1
\* the check returns false.
C7_OneErrorPerLeftover ==
    (Done /\ literal /\ ~func.uses_va_list /\ ret = "true"
          /\ format_str = Len(fmt)) =>
        LET k == Len(VarArgs) - Len(log)
        IN  /\ k >= 0
            /\ Len(diags) = k
            /\ \A i \in 1..Len(diags) :
                  /\ diags[i].kind = "UnconsumedArguments"
                  /\ diags[i].sev = "error"
                  /\ diags[i].anchor = VarArgLoc(Len(log) + i)
                  /\ diags[i].act = VarArgs[Len(log) + i].type
            /\ k >= 1 => returned = "false"
            /\ args_begin = args_end

C7_Witness ==
    /\ Done /\ literal /\ ~func.uses_va_list /\ ret = "true"
    /\ fmt = <<"s">> /\ Len(VarArgs) = 2 /\ Len(diags) = 1
    /\ diags[1].anchor = VarArgLoc(2)

\* C8: with a format argument that is no string literal the parser is not run
\* and the argument cursor is not touched; the only diagnostic ever emitted
\* is one NonLiteralFormatString warning, whatever the arguments.
C8_NonLiteralOnlyWarns ==
    ~literal =>
        /\ stack = <<>> /\ ret = "none" /\ log = <<>>
        /\ format_str = 0 /\ args_begin = 0
        /\ pc \in {"entry", "done"}
        /\ Len(diags) <= 1
        /\ \A i \in 1..Len(diags) :
              /\ diags[i].kind = "NonLiteralFormatString"
              /\ diags[i].sev = "warning"
        /\ Done => Len(diags) = 1

C8_Witness ==
    /\ ~literal /\ Done /\ Len(diags) = 1
    /\ Len(VarArgs) = 2 /\ VarArgs[1].null

\* The types written with one character.
SingleCharTypes == BasicTypeChars \cup {"v", "r", "*"}
DictSizes == {0, 1, 3}
\* At position i (from 1) of f starts a dict entry of n members, each one
\* character long, the key a basic type.
DictEntryAt(f, i, n) ==
    /\ i + n + 1 <= Len(f)
    /\ f[i] = "{"
    /\ f[i + n + 1] = "}"
    /\ \A j \in 1..n : f[i + j] \in SingleCharTypes
    /\ n >= 1 => f[i + 1] \in BasicTypeChars
MalformedDicts(f) ==
    {e \in (1..Len(f)) \X DictSizes : DictEntryAt(f, e[1], e[2])}
\* The offset in f at which the entry e is found to be malformed: its closing
\* brace, or its third member.
DecidedAt(e) == e[1] + (IF e[2] = 3 THEN 2 ELSE e[2])
\* C9, as stated, where nothing is around the entry: a format string that is
\* a dict entry of zero, one or three members fails with a MalformedDictEntry
\* diagnostic, whatever the arguments are.
C9_AsStated ==
    (Done /\ literal /\ \E n \in DictSizes :
                            DictEntryAt(fmt, 1, n) /\ Len(fmt) = n + 2) =>
        /\ returned = "false"
        /\ \E i \in 1..Len(diags) : diags[i].kind = "MalformedDictEntry"

\* C9, amended: such a format string always fails, with exactly one error and
\* without the walk getting past the entry.  The error is MalformedDictEntry
\* unless the walk ends before: with an error for an argument, or with a
\* format error before the place where the entry is found malformed.  It is
\* MalformedDictEntry when no arguments are consumed and the entry starts the
\* format string.
C9_MalformedDictFails ==
    (Done /\ literal /\ MalformedDicts(fmt) # {}) =>
        /\ returned = "false"
        /\ Len(diags) = 1
        /\ diags[1].sev = "error"
        /\ \A e \in MalformedDicts(fmt) :
              /\ format_str <= DecidedAt(e)
              /\ \/ diags[1].kind = "MalformedDictEntry"
                 \/ diags[1].kind \in ArgumentKinds \ {"UnconsumedArguments"}
                 \/ diags[1].kind \in FormatKinds /\ format_str < DecidedAt(e)
        /\ (func.uses_va_list /\ \E n \in DictSizes : DictEntryAt(fmt, 1, n)) =>
              diags[1].kind = "MalformedDictEntry"

C9_Witness ==
    /\ Done /\ literal /\ ~func.uses_va_list
    /\ DictEntryAt(fmt, 2, 3) /\ fmt[1] = "("
    /\ Len(diags) = 1
    /\ diags[1].msg = "format_dict_more_than_two_elements"
    /\ args_begin = args_end

\* The number of brackets of f[1..k] that are open at its end.
RECURSIVE OpenTuples(_, _)
OpenTuples(f, k) ==
    IF k = 0 THEN 0
    ELSE LET d == OpenTuples(f, k - 1)
         IN  CASE f[k] = "(" -> d + 1
               [] f[k] = ")" /\ d > 0 -> d - 1
               [] OTHER -> d
UnclosedTuple == OpenTuples(fmt, Len(fmt)) > 0
\* The format string is open brackets and one-character types, possibly as
\* the element type of an array: the walk gets to its end inside a tuple.
EndsInsideTuple ==
    \E k \in 1..Len(fmt) :
        /\ fmt[k] = "("
        /\ \A j \in 1..(k - 1) : fmt[j] = "a"
        /\ \A j \in (k + 1)..Len(fmt) : fmt[j] \in SingleCharTypes \cup {"("}
UnterminatedTupleError(fn) ==
    FormatError("UnterminatedTuple",
                IF fn = "fs" THEN "format_tuple_no_end" ELSE "type_tuple_no_end")

\* C10, as stated, where the tuple opens the format string: a format string
\* whose first bracket is not closed before the string ends fails with an
\* UnterminatedTuple diagnostic.
C10_AsStated ==
    (Done /\ literal /\ fmt # <<>>
          /\ \A k \in 1..Len(fmt) : OpenTuples(fmt, k) > 0) =>
        /\ returned = "false"
        /\ \E i \in 1..Len(diags) : diags[i].kind = "UnterminatedTuple"

\* C10, amended: such a format string always fails, with exactly one error.
\* In both grammars the error is UnterminatedTuple whenever the walk gets to
\* the end of the string where a member or the closing bracket of a tuple is
\* due, as it does when no arguments are consumed and the string is open
\* brackets and one-character types; an error for an argument, or the end of
\* the string inside a type that is not complete, is reported instead.
C10_UnclosedTupleFails ==
    /\ []((Done /\ literal /\ UnclosedTuple) =>
             /\ returned = "false"
             /\ Len(diags) = 1
             /\ diags[1].sev = "error"
             /\ diags[1].kind # "UnterminatedTuple" =>
                   \/ diags[1].kind \in ArgumentKinds \ {"UnconsumedArguments"}
                   \/ diags[1].kind \in FormatKinds
             /\ (func.uses_va_list /\ EndsInsideTuple) =>
                   diags[1] = UnterminatedTupleError(
                                  IF fmt[1] = "a" THEN "ts" ELSE "fs"))
    /\ [][(/\ pc = "walk" /\ stack # <<>> /\ Top.at = "tuple"
           /\ ret # "false" /\ CharAt(format_str) = NUL) =>
              /\ diags' = Append(diags, UnterminatedTupleError(Top.fn))
              /\ ret' = "false"
              /\ stack' = Popped
              /\ format_str' = format_str]_vars

C10_Witness ==
    /\ Done /\ literal /\ UnclosedTuple
    /\ ~func.uses_va_list /\ Len(VarArgs) = 1 /\ Len(fmt) = 3
    /\ diags = << UnterminatedTupleError("ts") >>

EmptyTuple == <<"(", ")">>

\* C11: the empty tuple "()" parses successfully: the walk emits nothing,
\* returns true with the format cursor two characters on and the argument
\* cursor where it started; with no variadic argument on a signature without
\* va_list the check returns true without a diagnostic.
C11_EmptyTupleAccepted ==
    (literal /\ fmt = EmptyTuple) =>
        /\ pc = "walk" =>
              /\ diags = <<>>
              /\ ret # "false"
              /\ args_begin = func.first_vararg_param_index
              /\ stack = <<>> => (ret = "true" /\ format_str = 2)
        /\ (Done /\ ~func.uses_va_list /\ VarArgs = <<>>) =>
              /\ returned = "true"
              /\ diags = <<>>
              /\ format_str = 2
              /\ args_begin = func.first_vararg_param_index

C11_Witness ==
    /\ Done /\ literal /\ fmt = EmptyTuple
    /\ func.func_name = "g_variant_new" /\ VarArgs = <<>>
    /\ returned = "true" /\ format_str = 2

\* _consume_variadic_argument is about to look at an argument.
Consuming ==
    /\ Running("consume", "start")
    /\ ret = "none"
    /\ "CONSUME_ARGS" \in Top.flags
    /\ args_begin # args_end
NextArg == args[args_begin + 1]
\* ... which is the null literal NULL.
ConsumingNull == Consuming /\ NextArg = NullExpr
NullNotAllowedError ==
    ArgError("NullNotAllowed", "saw_null", args_begin + 1,
             ExpectedType(Top.et, Top.flags), NoType)
NullRefused ==
    /\ ret' = "false"
    /\ diags' = Append(diags, NullNotAllowedError)
    /\ args_begin' = args_begin
NullTaken ==
    /\ ret' = "true"
    /\ diags' = diags
    /\ args_begin' = args_begin + 1

\* The character at index i of the format string (from 1).
FmtAt(i) == IF i \in 1..Len(fmt) THEN fmt[i] ELSE NUL
\* The index after the type that starts at index i, by the grammar of GVariant
\* format strings; 0 where there is no complete type.
RECURSIVE TypeEnd(_)
RECURSIVE MembersEnd(_)
TypeEnd(i) ==
    LET c == FmtAt(i)
    IN  CASE c \in {NUL, ")", "}"} -> 0
          [] c \in {"a", "m", "@", "&"} -> TypeEnd(i + 1)
          [] c = "^" ->
             IF Convenience(i).skip = 0 THEN 0 ELSE i + 1 + Convenience(i).skip
          [] c = "(" -> MembersEnd(i + 1)
          [] c = "{" ->
             LET k == TypeEnd(i + 1)
                 v == IF k = 0 THEN 0 ELSE TypeEnd(k)
             IN  IF v # 0 /\ FmtAt(v) = "}" THEN v + 1 ELSE 0
          [] OTHER -> i + 1
MembersEnd(i) ==
    IF FmtAt(i) = ")" THEN i + 1
    ELSE LET e == TypeEnd(i)
         IN  IF e = 0 THEN 0 ELSE MembersEnd(e)
\* The maybe type whose 'm' is at index k holds the character at index e.
MaybeHolds(k, e) ==
    /\ FmtAt(k) = "m"
    /\ k < e
    /\ LET end == TypeEnd(k + 1)
       IN  end = 0 \/ e < end
\* The argument being consumed is that of an array: its builder or iterator.
ConsumingForArray ==
    Top.et \in {FindPointerTypeByName("GVariantBuilder"),
                FindPointerTypeByName("GVariantIter")}
\* The position whose argument is being consumed is wrapped in a maybe type:
\* the last character of the position is the one before the format cursor.
WrappedInMaybe ==
    IF ConsumingForArray THEN MaybeHolds(1, format_str)
    ELSE \E k \in 1..Len(fmt) : MaybeHolds(k, format_str)
NoMaybe == \A k \in 1..Len(fmt) : fmt[k] # "m"

C13_NullAcceptedWhereAllowed ==
    [][(ConsumingNull /\ (WrappedInMaybe \/ ~func.args_in)) => NullTaken]_vars

C13_Witness ==
    /\ Done /\ literal
    /\ func.func_name = "g_variant_lookup"
    /\ fmt = <<"(", "s", "m", "s", ")">>
    /\ VarArgs = <<NullExpr, NullExpr>>
    /\ returned = "true" /\ args_begin = args_end

ArchDependentNames == {"long", "unsigned long", "long double", "glong", "gulong"}
ArgDiag(kind) ==
    /\ ret' = "false"
    /\ args_begin' = args_begin
    /\ Len(diags') = Len(diags) + 1
    /\ SubSeq(diags', 1, Len(diags)) = diags
    /\ diags'[Len(diags')].kind = kind
    /\ diags'[Len(diags')].anchor = args_begin + 1
    /\ diags'[Len(diags')].exp = ExpectedType(Top.et, Top.flags)

\* C15: a non-null argument of architecture-dependent type always fails with
\* ArchDependentMismatch, also when the types compare equal; TypeMismatch is
\* reported only for a type that is not architecture-dependent and does not
\* compare equal; one argument never gets both.
C15_ArchBeforeType ==
    [][(Consuming /\ ~NextArg.null) =>
          LET expected_type == ExpectedType(Top.et, Top.flags)
              actual_type == ActualType(NextArg, expected_type)
          IN  IF actual_type.b \in ArchDependentNames
              THEN ArgDiag("ArchDependentMismatch")
              ELSE IF ~_compare_types(actual_type, expected_type, Top.flags)
              THEN ArgDiag("TypeMismatch")
              ELSE ret' = "true" /\ diags' = diags]_vars

C15_Witness ==
    /\ Done /\ literal
    /\ func.func_name = "g_variant_new"
    /\ fmt = <<"x">>
    /\ VarArgTypes = <<Ty("long")>>
    /\ _compare_types(Ty("long"), FindTypeByName("gint64"), BaseFlags(func))
    /\ returned = "false"
    /\ DiagKinds = <<"ArchDependentMismatch">>
    /\ diags[1].act = Ty("long")

\* _consume_variadic_argument has been called by _check_basic_type_string for
\* the basic type character before the format cursor, with no forced type.
ConsumingBasic ==
    /\ Running("consume", "start")
    /\ ret = "none"
    /\ Len(stack) > 1
    /\ stack[Len(stack) - 1].fn = "bts"
    /\ Top.flags \cap {"FORCE_GVARIANT", "FORCE_VALIST"} = {}
NarrowChars == {"y", "n", "q"}
NarrowBits == [c \in NarrowChars |-> IF c = "y" THEN 8 ELSE 16]

\* C16: inbound, 'y', 'n' and 'q' expect a 32-bit signed integer; outbound
\* they expect a pointer to the unpromoted 8-bit or 16-bit type; the expected
\* type of every other basic character is the one of its case label.
C16_NarrowPromotedInboundOnly ==
    ConsumingBasic =>
        LET c == fmt[format_str]
            expected_type == ExpectedType(Top.et, Top.flags)
        IN  IF c \notin NarrowChars
            THEN Top.et = BasicType(c)
            ELSE IF func.args_in
            THEN /\ expected_type = Ty("int")
                 /\ IsSignedIntegerType(expected_type)
                 /\ TypeSize(expected_type) = 32
            ELSE /\ IsPointerType(expected_type)
                 /\ PointeeType(expected_type) = BasicType(c)
                 /\ TypeSize(PointeeType(expected_type)) = NarrowBits[c]
                 /\ (c = "n") = IsSignedIntegerType(PointeeType(expected_type))

C16_Witness ==
    /\ Done /\ literal
    /\ func.func_name = "g_variant_new"
    /\ fmt = <<"y">>
    /\ VarArgTypes = <<Ty("gint")>>
    /\ log = <<Ty("int")>>
    /\ returned = "true" /\ diags = <<>>

\* C17: on a signature that uses a va_list the argument cursor stays at the
\* first variadic position, no argument is looked at and no diagnostic about
\* an argument is emitted; the check fails only with a diagnostic about the
\* format argument.
C17_VaListNeverConsumes ==
    func.uses_va_list =>
        /\ args_begin \in {0, func.first_vararg_param_index}
        /\ pc \in {"walk", "unconsumed"} =>
              args_begin = func.first_vararg_param_index
        /\ log = <<>>
        /\ \A i \in 1..Len(diags) :
              /\ diags[i].kind \notin ArgumentKinds \cup {"UnconsumedArguments"}
              /\ diags[i].anchor = FormatLoc
        /\ returned = "false" =>
              /\ Len(diags) = 1
              /\ diags[1].kind \in
                    FormatKinds \cup {"UnconsumedFormatString",
                                      "NonLiteralFormatString"}

C17_Witness ==
    /\ Done /\ literal
    /\ func.func_name = "g_variant_get_va"
    /\ fmt = <<"(", "s", "x", ")">>
    /\ returned = "true" /\ diags = <<>>
    /\ args_begin = func.first_vararg_param_index
    /\ args_begin # args_end

\* _consume_variadic_argument is about to find no argument left.
ConsumingAtEnd ==
    /\ Running("consume", "start")
    /\ ret = "none"
    /\ "CONSUME_ARGS" \in Top.flags
    /\ args_begin = args_end
MissingArgumentError ==
    ArgError("MissingArgument", "no_argument", func.format_param_index + 1,
             ExpectedType(Top.et, Top.flags), NoType)

\* C18: with CONSUME_ARGS set and the argument cursor at the end, a position
\* that takes an argument fails with exactly one MissingArgument error, which
\* names the expected type after the overrides and is anchored at the format
\* argument; the cursor stays at the end, and nothing else is reported.
C18_MissingArgument ==
    /\ [][ConsumingAtEnd =>
             /\ ret' = "false"
             /\ diags' = Append(diags, MissingArgumentError)
             /\ args_begin' = args_end]_vars
    /\ []((\E i \in 1..Len(diags) : diags[i].kind = "MissingArgument") =>
             /\ Len(diags) = 1
             /\ args_begin = args_end
             /\ returned # "true")

C18_Witness ==
    /\ Done /\ literal
    /\ func.func_name = "g_variant_get"
    /\ fmt = <<"(", "s", "x", ")">>
    /\ Len(VarArgs) = 1
    /\ returned = "false"
    /\ DiagKinds = <<"MissingArgument">>
    /\ diags[1].anchor = 2
    /\ diags[1].exp = PointerType(Ty("gint64"))
    /\ args_begin = args_end

\* _check_format_string has returned true with characters left.
WalkedWithFormatLeft ==
    /\ pc = "walk"
    /\ stack = <<>>
    /\ ret = "true"
    /\ format_str < Len(fmt)
UnconsumedFormatStringError ==
    Diag("UnconsumedFormatString", "unpaired_format_strings", "error",
         func.format_param_index + 1, NoType, NoType,
         SubSeq(fmt, format_str + 1, Len(fmt)), fmt)

\* C19: when the walk succeeds with format characters left, the check emits
\* exactly one UnconsumedFormatString error, which names what is left and the
\* whole string, and returns false; no argument left gets an
\* UnconsumedArguments error.
C19_UnconsumedFormatString ==
    /\ [][WalkedWithFormatLeft =>
             /\ diags = <<>>
             /\ diags' = <<UnconsumedFormatStringError>>
             /\ returned' = "false"
             /\ pc' = "done"
             /\ args_begin' = args_begin]_vars
    /\ []((\E i \in 1..Len(diags) : diags[i].kind = "UnconsumedFormatString") =>
             /\ Len(diags) = 1
             /\ diags[1].s0 # <<>>
             /\ Done /\ returned = "false")

C19_Witness ==
    /\ Done /\ literal
    /\ func.func_name = "g_variant_new"
    /\ fmt = <<"s", "s">>
    /\ VarArgTypes = <<PointerType(Ty("gchar")), PointerType(Ty("gchar"))>>
    /\ returned = "false"
    /\ DiagKinds = <<"UnconsumedFormatString">>
    /\ diags[1].s0 = <<"s">> /\ diags[1].s1 = fmt
    /\ args_begin = VarArgLoc(1)
    /\ args_begin # args_end

\* The eight convenience conversions.
Macros ==
    { <<"a", "s">>, <<"a", "o">>, <<"a", "&", "s">>, <<"a", "&", "o">>,
      <<"a", "a", "y">>, <<"a", "y">>, <<"&", "a", "y">>,
      <<"a", "&", "a", "y">> }
\* The conversion M stands in the format string right after index i.
MacroAfter(M, i) ==
    /\ i + Len(M) <= Len(fmt)
    /\ SubSeq(fmt, i + 1, i + Len(M)) = M
\* _check_basic_format_string is about to read a '^'.
AtConvenience ==
    /\ Running("bfs", "start")
    /\ ret = "none"
    /\ CharAt(format_str) = "^"
InvalidConvenienceError ==
    Diag("InvalidFormatChar", "unrecognized_convenience", "error",
         func.format_param_index + 1, NoType, NoType, <<>>, <<>>)

\* C20: '^' followed by one of the eight convenience conversions M moves the
\* format cursor on by 1 + |M| and consumes exactly one argument; '^' followed
\* by anything else fails with InvalidFormatChar and consumes no argument.
C20_ConvenienceMacros ==
    /\ [][AtConvenience =>
             /\ args_begin' = args_begin
             /\ \A M \in Macros : MacroAfter(M, format_str + 1) =>
                   /\ format_str' = format_str + 1 + Len(M)
                   /\ diags' = diags
                   /\ ret' = "none"
                   /\ stack'[Len(stack')].fn = "consume"
                   /\ stack'[Len(stack')].flags = Top.flags
             /\ (\A M \in Macros : ~MacroAfter(M, format_str + 1)) =>
                   /\ ret' = "false"
                   /\ diags' = Append(diags, InvalidConvenienceError)
                   /\ stack' = Popped]_vars
    /\ [](\A M \in Macros :
             (Done /\ literal /\ fmt = <<"^">> \o M /\ ~func.uses_va_list) =>
                 /\ returned = "true" =>
                       (Len(VarArgs) = 1 /\ args_begin = args_end
                        /\ format_str = 1 + Len(M))
                 /\ VarArgs = <<>> => DiagKinds = <<"MissingArgument">>
                 /\ \A i \in 1..Len(diags) :
                       diags[i].kind # "InvalidFormatChar")

C20_Witness ==
    /\ Done /\ literal
    /\ func.func_name = "g_variant_new"
    /\ fmt = <<"^", "a", "&", "a", "y">>
    /\ VarArgTypes = <<PointerType(PointerType(ConstType(Ty("gchar"))))>>
    /\ returned = "true" /\ diags = <<>>
    /\ format_str = 5
    /\ args_begin = args_end

\* The element type of an array is being parsed: the call for the array
\* waits for it.
InArrayElement ==
    \E i \in 1..(Len(stack) - 1) : stack[i].fn = "ts" /\ stack[i].at = "array"
\* The element type of an array that takes an argument has been parsed.
ArrayElementParsed ==
    /\ Running("ts", "array")
    /\ ret = "true"
    /\ "CONSUME_ARGS" \in Top.flags
    /\ Top.flags \cap {"FORCE_GVARIANT", "FORCE_VALIST"} = {}
ArrayArgumentType ==
    IF func.args_in THEN FindPointerTypeByName("GVariantBuilder")
    ELSE PointerType(FindPointerTypeByName("GVariantIter"))
\* The format string is one array with a well-formed element type.
WholeArray == FmtAt(1) = "a" /\ TypeEnd(1) = Len(fmt) + 1

\* C21: the array production 'aX' moves the argument cursor on by exactly
\* one: while X is parsed the cursor stays and no argument is looked at, and
\* afterwards a single argument is checked against GVariantBuilder* (inbound)
\* or GVariantIter** (outbound).
C21_ArrayTakesOneArgument ==
    /\ [][InArrayElement =>
             /\ args_begin' = args_begin
             /\ log' = log
             /\ \A i \in (Len(diags) + 1)..Len(diags') :
                   diags'[i].kind \notin ArgumentKinds]_vars
    /\ [][ArrayElementParsed =>
             /\ stack'[Len(stack')].fn = "consume"
             /\ "CONSUME_ARGS" \in stack'[Len(stack')].flags
             /\ ExpectedType(stack'[Len(stack')].et, stack'[Len(stack')].flags)
                    = ArrayArgumentType
             /\ args_begin' = args_begin]_vars
    /\ []((literal /\ ~func.uses_va_list /\ WholeArray) =>
             /\ log \in {<<>>, <<ArrayArgumentType>>}
             /\ (pc = "walk" /\ diags = <<>>) =>
                   args_begin = func.first_vararg_param_index + Len(log)
             /\ (Done /\ returned = "true") =>
                   /\ Len(VarArgs) = 1
                   /\ log = <<ArrayArgumentType>>
                   /\ args_begin = func.first_vararg_param_index + 1)

C21_Witness ==
    /\ Done /\ literal
    /\ func.func_name = "g_variant_get"
    /\ fmt = <<"a", "(", "i", "i", ")">>
    /\ VarArgTypes = <<PointerType(FindPointerTypeByName("GVariantIter"))>>
    /\ returned = "true" /\ diags = <<>>
    /\ args_begin = args_end

---------------------------------------------------------------------------

PrefixChars == {"@", "&", "^"}
\* A call of one of the four parsers is about to read '@', '&' or '^'.
AtPrefix ==
    /\ pc = "walk"
    /\ stack # <<>>
    /\ Top.fn \in {"fs", "bfs", "ts", "bts"}
    /\ Top.at = "start"
    /\ ret = "none"
    /\ CharAt(format_str) \in PrefixChars
\* Index e is one of the characters of a convenience conversion.
InMacro(e) ==
    \E i \in 1..(e - 1) :
        /\ FmtAt(i) = "^"
        /\ Convenience(i).skip # 0
        /\ e <= i + Convenience(i).skip
\* Index e lies in the type that follows an '@', an '&' or an 'a'.
UnderTypeString(e) ==
    \E k \in 1..(e - 1) :
        /\ FmtAt(k) \in {"@", "&", "a"}
        /\ ~InMacro(k)
        /\ LET end == TypeEnd(k + 1)
           IN  end = 0 \/ e < end
PrefixRejected(c) ==
    Diag("InvalidFormatChar", "expected_basic_type_string", "error",
         FormatLoc, NoType, NoType, <<c>>, <<>>)

\* C22: at a '@', '&' or '^' the type-string grammar is the one parsing
\* exactly when the character lies in the type after an '@', an '&' or an
\* array's 'a', at any depth; there it is handed to the basic type parser at
\* the same place, which fails with InvalidFormatChar; a check that ends with
\* that diagnostic ends at such a character, and one that succeeds has none.
C22_TypeStringRejectsPrefixes ==
    /\ [](AtPrefix =>
              (Top.fn \in {"ts", "bts"} <=> UnderTypeString(format_str + 1)))
    /\ [][(AtPrefix /\ Top.fn = "ts") =>
              /\ format_str' = format_str
              /\ diags' = diags
              /\ stack'[Len(stack')].fn = "bts"
              /\ stack'[Len(stack')].at = "start"]_vars
    /\ [][(AtPrefix /\ Top.fn = "bts") =>
              /\ ret' = "false"
              /\ format_str' = format_str
              /\ args_begin' = args_begin
              /\ diags' = Append(diags, PrefixRejected(CharAt(format_str)))]_vars
    /\ [][(AtPrefix /\ Top.fn \in {"fs", "bfs"}) =>
              \/ diags' = diags
              \/ /\ CharAt(format_str) = "^"
                 /\ diags' = Append(diags, InvalidConvenienceError)]_vars
    /\ []((Done /\ literal) =>
              /\ \A c \in PrefixChars :
                    (\E i \in 1..Len(diags) : diags[i] = PrefixRejected(c)) =>
                        /\ FmtAt(format_str + 1) = c
                        /\ UnderTypeString(format_str + 1)
              /\ returned = "true" =>
                    \A e \in 1..Len(fmt) :
                        (FmtAt(e) \in PrefixChars /\ ~InMacro(e)) =>
                            ~UnderTypeString(e))
C22_Witness ==
    /\ Done
    /\ literal
    /\ func.func_name = "g_variant_new"
    /\ fmt = <<"a", "(", "@", "s", ")">>
    /\ diags = <<PrefixRejected("@")>>
    /\ returned = "false"

---------------------------------------------------------------------------

\* The index of the '{' of the dict entry of the format string: the first
\* character, or the one after the 'a' of an array.
DictStart == IF FmtAt(1) = "a" THEN 2 ELSE 1
\* The index after the basic type that starts at index i, 0 where none does:
\* a basic type character, on its own or after '@' or '&'.
BasicKeyEnd(i) ==
    IF FmtAt(i) \in BasicTypeChars THEN i + 1
    ELSE IF FmtAt(i) \in {"@", "&"} /\ FmtAt(i + 1) \in BasicTypeChars
    THEN i + 2
    ELSE 0
\* The characters that start a container or variant production.
ContainerKeyChars == {"a", "m", "(", "{", "v", "r", "*"}
\* Exactly one key that ends at index k and one value lie before the '}'.
OneKeyOneValue(k) ==
    /\ k # 0
    /\ TypeEnd(k) # 0
    /\ FmtAt(TypeEnd(k)) = "}"

\* C23: a dict entry whose key starts with 'a', 'm', '(', '{', 'v', 'r' or '*'
\* fails, and a dict entry that is accepted has a basic type as its key, and
\* exactly one key and one value before its '}'.
C23_AsStated ==
    (Done /\ literal /\ FmtAt(DictStart) = "{") =>
        /\ FmtAt(DictStart + 1) \in ContainerKeyChars => returned = "false"
        /\ returned = "true" => OneKeyOneValue(BasicKeyEnd(DictStart + 1))
\* The same with the convenience conversions the key parser of the
\* format-string grammar takes too.
C23_WithConversions ==
    (Done /\ literal /\ FmtAt(DictStart) = "{") =>
        /\ FmtAt(DictStart + 1) \in ContainerKeyChars =>
              /\ returned = "false"
              /\ \E c \in ContainerKeyChars : diags = <<PrefixRejected(c)>>
        /\ returned = "true" =>
              \/ OneKeyOneValue(BasicKeyEnd(DictStart + 1))
              \/ /\ DictStart = 1
                 /\ FmtAt(2) = "^"
                 /\ OneKeyOneValue(TypeEnd(2))

---------------------------------------------------------------------------

\* The three overrides, in the order of the claim.
VariantForced(base_type, flags) ==
    IF "FORCE_GVARIANT" \in flags THEN FindPointerTypeByName("GVariant")
    ELSE base_type
ConstAdded(type, flags) ==
    IF /\ "DIRECTION_OUT" \in flags
       /\ "REQUIRE_CONST" \in flags
       /\ IsPointerType(type)
    THEN PointerType(ConstType(PointeeType(type)))
    ELSE type
PointerAdded(type, flags) ==
    IF "DIRECTION_OUT" \in flags THEN PointerType(type) ELSE type
ComparedAgainst(base_type, flags) ==
    PointerAdded(ConstAdded(VariantForced(base_type, flags), flags), flags)
\* The check of a literal format string of a function with variadic
\* arguments has ended.
CheckedVariadic == Done /\ literal /\ ~func.uses_va_list
CharPtr == PointerType(Ty("char"))
ConstCharPtrPtr == PointerType(PointerType(ConstType(Ty("char"))))

\* C24: every argument consumed is compared against the base type of its
\* production, replaced by GVariant* under forceVariantType, then given a
\* const pointee when outbound with requireConstPointee and a pointer, then
\* one more pointer level when outbound: "&s" expects char* inbound and
\* const char** outbound, "@s" expects GVariant* and GVariant**.
C24_ExpectedTypeOverrides ==
    /\ [][(Running("consume", "start") /\ ret = "none"
              /\ "CONSUME_ARGS" \in Top.flags) =>
              log' = Append(log, ComparedAgainst(Top.et, Top.flags))]_vars
    /\ []((CheckedVariadic /\ fmt = <<"&", "s">>) =>
              log = << IF func.args_in THEN CharPtr ELSE ConstCharPtrPtr >>)
    /\ []((CheckedVariadic /\ fmt = <<"@", "s">>) =>
              log = << IF func.args_in
                       THEN FindPointerTypeByName("GVariant")
                       ELSE PointerType(FindPointerTypeByName("GVariant")) >>)
C24_Witness ==
    /\ CheckedVariadic
    /\ func.func_name = "g_variant_get"
    /\ fmt = <<"&", "s">>
    /\ VarArgTypes = << PointerType(PointerType(ConstType(Ty("gchar")))) >>
    /\ log = <<ConstCharPtrPtr>>
    /\ returned = "true"

---------------------------------------------------------------------------

\* The types _compare_types is called with for the argument being consumed.
ExpectedHere == ExpectedType(Top.et, Top.flags)
ActualHere == ActualType(NextArg, ExpectedHere)
ConsumingInbound == Consuming /\ "DIRECTION_OUT" \notin Top.flags
ConsumingOutbound == Consuming /\ "DIRECTION_OUT" \in Top.flags
\* Two pointer types of the same depth and base type, which differ at most
\* in the const qualifiers of their pointees.
ConstOnlyDifference(a, e) ==
    /\ IsPointerType(a)
    /\ Len(a.p) = Len(e.p)
    /\ Canonical(a.b) = Canonical(e.b)
    /\ IsConstQualified(a) = IsConstQualified(e)

\* C25: for an inbound argument, two pointer types that differ only in the
\* const qualifiers of their pointees compare equal, whichever of them is the
\* actual and whichever the expected type.
C25_AsStated ==
    (ConsumingInbound /\ ConstOnlyDifference(ActualHere, ExpectedHere)) =>
        /\ _compare_types(ActualHere, ExpectedHere, Top.flags)
        /\ _compare_types(ExpectedHere, ActualHere, Top.flags)
\* What holds: the qualifiers of the actual type are of no account where the
\* expected type has no const pointee.
C25_ActualQualifiersIgnored ==
    (ConsumingInbound /\ ConstOnlyDifference(ActualHere, ExpectedHere)
        /\ \A k \in 1..Len(ExpectedHere.p) : ~ExpectedHere.p[k]) =>
        _compare_types(ActualHere, ExpectedHere, Top.flags)

\* C26: for an outbound argument, the types compare equal exactly when they
\* have the same pointer depth, the same base type and the same qualifiers at
\* every level; a pointer and a non-pointer are unequal.
C26_AsStated ==
    ConsumingOutbound =>
        /\ _compare_types(ActualHere, ExpectedHere, Top.flags)
               <=> HasSameType(ActualHere, ExpectedHere)
        /\ IsPointerType(ActualHere) # IsPointerType(ExpectedHere) =>
               ~_compare_types(ActualHere, ExpectedHere, Top.flags)
\* What holds: of the qualifiers, only that of the base type is compared.
C26_BaseQualifierOnly ==
    ConsumingOutbound =>
        (_compare_types(ActualHere, ExpectedHere, Top.flags) <=>
            /\ Len(ActualHere.p) = Len(ExpectedHere.p)
            /\ Canonical(ActualHere.b) = Canonical(ExpectedHere.b)
            /\ ActualHere.p[1] = ExpectedHere.p[1])

\* The type left when every pointer level is stripped off.
Stripped(t) == [b |-> t.b, p |-> <<t.p[1]>>]
IsNamedAlias(t) == Canonical(t.b) # t.b
ArchDependentAsClaimed(t) ==
    IF IsNamedAlias(Stripped(t)) THEN t.b \in {"glong", "gulong"}
    ELSE Stripped(t) \in {Ty("long"), Ty("unsigned long"), Ty("long double")}

---------------------------------------------------------------------------

\* An argument of signed integer type is being consumed where the unsigned
\* type of the same width is expected.
ConsumingSignedForUnsigned ==
    /\ Consuming
    /\ IsUnsignedIntegerType(ExpectedHere)
    /\ IsSignedIntegerType(NextArg.type)
    /\ TypeSize(NextArg.type) = TypeSize(ExpectedHere)
\* The argument is accepted: the call returns true and moves on by one.
ArgumentAccepted ==
    /\ ret' = "true"
    /\ diags' = diags
    /\ args_begin' = args_begin + 1

\* C28: a non-negative integer constant of signed type is accepted where the
\* unsigned type of the same width is expected; a negative constant and an
\* expression that is no constant get TypeMismatch there.
C28_AsStated ==
    [][ConsumingSignedForUnsigned =>
          IF NextArg.icv = "nonneg" THEN ArgumentAccepted
          ELSE ArgDiag("TypeMismatch")]_vars
\* C28, amended: the constant is accepted where its corresponding unsigned
\* type is the expected type and is not architecture-dependent; the negative
\* constant and the non-constant get ArchDependentMismatch where their type
\* is architecture-dependent and TypeMismatch otherwise.
C28_ConstantPromotion ==
    [][ConsumingSignedForUnsigned =>
          /\ (/\ NextArg.icv = "nonneg"
              /\ HasSameType(CorrespondingUnsignedType(NextArg.type),
                             ExpectedHere)
              /\ ~ArchDependentAsClaimed(
                      CorrespondingUnsignedType(NextArg.type))) =>
                  ArgumentAccepted
          /\ NextArg.icv # "nonneg" =>
                  IF ArchDependentAsClaimed(NextArg.type)
                  THEN ArgDiag("ArchDependentMismatch")
                  ELSE ArgDiag("TypeMismatch")]_vars
C28_Witness ==
    /\ CheckedVariadic
    /\ func.func_name = "g_variant_new"
    /\ fmt = <<"u">>
    /\ VarArgs = << Expr(Ty("int"), FALSE, "nonneg") >>
    /\ log = << FindTypeByName("guint32") >>
    /\ diags = <<>>
    /\ returned = "true"

---------------------------------------------------------------------------

\* C29: every call on the stack runs with all the flags of its caller,
\* CONSUME_ARGS at most excepted, and so with all the flags of the check but
\* CONSUME_ARGS; CONSUME_ARGS is lacking only beneath an array, whose element
\* type is checked without it.
C29_FlagsGrowOnDescent ==
    /\ [](\A i \in 1..(Len(stack) - 1) :
              /\ stack[i].flags \ {"CONSUME_ARGS"} \subseteq stack[i + 1].flags
              /\ ("CONSUME_ARGS" \in stack[i].flags
                     /\ "CONSUME_ARGS" \notin stack[i + 1].flags) =>
                     (stack[i].fn = "ts" /\ stack[i].at = "array"))
    /\ [](\A i \in 1..Len(stack) :
              BaseFlags(func) \ {"CONSUME_ARGS"} \subseteq stack[i].flags)
C29_Witness ==
    /\ pc = "walk"
    /\ func.func_name = "g_variant_get"
    /\ Len(stack) >= 3
    /\ "CONSUME_ARGS" \in stack[1].flags
    /\ "CONSUME_ARGS" \notin Top.flags
    /\ {"DIRECTION_OUT", "ALLOW_MAYBE"} \subseteq Top.flags
    /\ Top.flags # stack[1].flags \ {"CONSUME_ARGS"}

---------------------------------------------------------------------------

Min(a, b) == IF a < b THEN a ELSE b
\* The calls that wait for a member of their tuple or dict entry.
AtMember(i) == stack[i].at \in {"tuple", "dict_key", "dict_value"}

\* C30: every member of a tuple or dict entry is parsed with the flags of the
\* tuple or dict entry, whatever prefix a member before it had, as no call
\* changes the flags of a call beneath it on the stack.  Inbound, "(mss)"
\* with NULL as the second argument fails with NullNotAllowed, and the second
\* argument of "(@si)" is compared against gint32.
C30_PrefixFlagsAreLocal ==
    /\ [](\A i \in 1..(Len(stack) - 1) :
              AtMember(i) => stack[i + 1].flags = stack[i].flags)
    /\ [][\A i \in 1..Min(Len(stack) - 1, Len(stack')) :
              stack'[i].flags = stack[i].flags]_vars
    /\ []((CheckedVariadic /\ func.args_in /\ Len(VarArgs) = 2
              /\ fmt = <<"(", "m", "s", "s", ")">> /\ VarArgs[2] = NullExpr
              /\ VarArgs[1] \in {NullExpr, Var(PointerType(Ty("gchar")))}) =>
              /\ returned = "false"
              /\ DiagKinds = <<"NullNotAllowed">>
              /\ diags[1].anchor = VarArgLoc(2))
    /\ []((CheckedVariadic /\ func.args_in /\ Len(VarArgs) = 2
              /\ fmt = <<"(", "@", "s", "i", ")">>
              /\ VarArgs[1] = Var(FindPointerTypeByName("GVariant"))) =>
              /\ log = <<FindPointerTypeByName("GVariant"),
                         FindTypeByName("gint32")>>
              /\ returned = RetOf(VarArgs[2] \in {Var(Ty("gint")), NullExpr}))
C30_Witness ==
    /\ CheckedVariadic
    /\ func.func_name = "g_variant_new"
    /\ fmt = <<"(", "m", "s", "s", ")">>
    /\ VarArgs = <<NullExpr, NullExpr>>
    /\ DiagKinds = <<"NullNotAllowed">>
    /\ diags[1].anchor = VarArgLoc(2)
    /\ returned = "false"

---------------------------------------------------------------------------

\* _consume_variadic_argument is called with CONSUME_ARGS set.
ConsumerCalled ==
    /\ Running("consume", "start")
    /\ ret = "none"
    /\ "CONSUME_ARGS" \in Top.flags

\* C31: a call of the consumer with CONSUME_ARGS either returns true and
\* moves the argument cursor on by one, or returns false with exactly one
\* error and the cursor where it was; no other step of the walk moves the
\* cursor, which never goes back and never passes the end of the arguments.
C31_ArgumentCursor ==
    /\ [][ConsumerCalled =>
              \/ /\ ret' = "true"
                 /\ args_begin' = args_begin + 1
                 /\ diags' = diags
              \/ /\ ret' = "false"
                 /\ args_begin' = args_begin
                 /\ Len(diags') = Len(diags) + 1
                 /\ SubSeq(diags', 1, Len(diags)) = diags
                 /\ diags'[Len(diags')].sev = "error"]_vars
    /\ [][(pc = "walk" /\ ~ConsumerCalled) => args_begin' = args_begin]_vars
    /\ [][args_begin' >= args_begin]_vars
    /\ [](args_begin <= args_end)
C31_Witness ==
    /\ CheckedVariadic
    /\ fmt = <<"(", "s", "x", ")">>
    /\ Len(VarArgs) = 2
    /\ log = <<PointerType(Ty("char")), FindTypeByName("gint64")>>
    /\ DiagKinds = <<"TypeMismatch">>
    /\ diags[1].anchor = VarArgLoc(2)
    /\ args_begin = args_end - 1

---------------------------------------------------------------------------

\* C32: the format cursor never goes back and stays within the format
\* string, its terminator included: also where a prefix character is the
\* last one of the string and where a '^' conversion is skipped.
C32_FormatCursor ==
    /\ [][format_str' >= format_str]_vars
    /\ [](format_str \in 0..Len(fmt))
    /\ [][(AtConvenience /\ Convenience(format_str + 1).skip # 0) =>
              format_str' = format_str + 1 + Convenience(format_str + 1).skip]_vars
C32_Witness ==
    /\ Done
    /\ literal
    /\ fmt = <<"m", "@">>
    /\ format_str = Len(fmt)
    /\ diags = <<PrefixRejected(NUL)>>

---------------------------------------------------------------------------

Parsers == {"fs", "bfs", "ts", "bts"}
\* The running call of a parser returns true with this step.
ReturnsSuccess ==
    /\ pc = "walk"
    /\ stack # <<>>
    /\ Top.fn \in Parsers
    /\ Len(stack') = Len(stack) - 1
    /\ ret' = "true"
\* The longest chain of calls that are entered at one place of the format
\* string: each but the last passes the character it has read on.
DelegationChain == <<"fs", "ts", "bts", "consume">>
MaxCallsPerChar == Len(DelegationChain)

\* C33: a parser that returns true leaves the format cursor beyond where it
\* was entered; the calls on the stack were entered at places that never go
\* back, none beyond the cursor, no more than MaxCallsPerChar at one place,
\* so the depth is bounded by the length of the format string; and every
\* check ends.
C33_Progress ==
    /\ [][ReturnsSuccess => format_str' > Top.from]_vars
    /\ [](\A i \in 1..Len(stack) :
              /\ stack[i].from <= format_str
              /\ i > 1 => stack[i - 1].from <= stack[i].from
              /\ i > MaxCallsPerChar =>
                     stack[i - MaxCallsPerChar].from < stack[i].from)
    /\ [](Len(stack) <= MaxCallsPerChar * (Len(fmt) + 1))
    /\ <>Done
C33_Witness ==
    /\ Done
    /\ literal
    /\ func.func_name = "g_variant_get_va"
    /\ fmt = <<"(", "s", "s", "s", ")">>
    /\ format_str = Len(fmt)
    /\ returned = "true"

---------------------------------------------------------------------------

\* The format string is '@' and one well-formed type string: a complete
\* type with no prefix character in it and basic types as dict keys.
VariantOfType ==
    /\ FmtAt(1) = "@"
    /\ TypeEnd(2) = Len(fmt) + 1
    /\ \A e \in 2..Len(fmt) :
          /\ fmt[e] \notin PrefixChars
          /\ fmt[e] = "{" => FmtAt(e + 1) \in BasicTypeChars
VariantArgumentType ==
    IF func.args_in THEN FindPointerTypeByName("GVariant")
    ELSE PointerType(FindPointerTypeByName("GVariant"))

\* C34: '@' and a well-formed type string take exactly one argument, which
\* is compared against GVariant* (GVariant** outbound): with one GVariant*
\* argument the inbound check succeeds.
C34_AsStated ==
    (CheckedVariadic /\ VariantOfType) =>
        /\ log = <<VariantArgumentType>>
        /\ (func.args_in /\ VarArgs = <<Var(FindPointerTypeByName("GVariant"))>>)
               => returned = "true"
\* What holds: the same where the type string has no tuple and no dict
\* entry outside an array; each member of these takes an argument of its own.
C34_OneArgumentPerMember ==
    (CheckedVariadic /\ VariantOfType
        /\ \A e \in 2..Len(fmt) :
               fmt[e] \in {"(", "{"} => \E k \in 2..(e - 1) : fmt[k] = "a") =>
        /\ log = <<VariantArgumentType>>
        /\ (func.args_in /\ VarArgs = <<Var(FindPointerTypeByName("GVariant"))>>)
               => returned = "true"

---------------------------------------------------------------------------

\* The call checks the format string inferred for the type T against one
\* argument of type T.
RoundTripOf(T) ==
    /\ _gvariant_format_string_for_type(T) # <<>>
    /\ fmt = _gvariant_format_string_for_type(T)
    /\ VarArgs = << Var(DefaultArgumentPromotion(T)) >>

\* C35: for every basic type character c and the type T it stands for, where
\* a format string is inferred for T, the inbound check of that format
\* string against one argument of type T succeeds.
C35_RoundTrip ==
    (CheckedVariadic /\ func.args_in
        /\ \E c \in BasicTypeChars : \E T \in ResolvedTypes(c) : RoundTripOf(T)) =>
        /\ returned = "true"
        /\ diags = <<>>
        /\ args_begin = args_end
C35_Witness ==
    /\ CheckedVariadic
    /\ func.func_name = "g_variant_new"
    /\ RoundTripOf(BasicType("q"))
    /\ fmt = <<"q">>
    /\ log = << Ty("int") >>
    /\ returned = "true"

====
